---- MODULE Spec2Model ----
(***************************************************************************)
(* Model of the Vallox Digit SE protocol engine (src/vallox.py) with the   *)
(* protocol constants of src/src/devices/vallox_protocol.py.               *)
(*                                                                         *)
(* Conventions of the model                                                *)
(*  - Python None is the integer None; Python True/False stored in the     *)
(*    data dictionary are 1/0 (True == 1 in Python).                       *)
(*  - time.monotonic() is the variable now, in milliseconds.  A handler    *)
(*    runs at one clock reading; the clock moves between handlers.         *)
(*  - last_received of a field is read back by the code only for its       *)
(*    truth value, except for co2_hi and co2_lo whose reading is compared  *)
(*    with the CO2 window.  The model keeps the clock reading for the two  *)
(*    CO2 halves and the mark Received for every other field.              *)
(*  - A status-changed callback is registered; notified is the sequence of *)
(*    names it was called with during the last handler, written the frames *)
(*    handed to serial.write during the last handler, err the exception    *)
(*    that left the last handler.                                          *)
(***************************************************************************)
EXTENDS Integers, Sequences, FiniteSets, TLC

\* ------------------------------------------------------------------------
\* Protocol constants (vallox_protocol.py)
\* ------------------------------------------------------------------------
VX_MSG_LENGTH == 6
VX_MSG_DOMAIN == 1
VX_MSG_POLL_BYTE == 0
VX_MSG_MAINBOARD_1 == 17
VX_MSG_MAINBOARDS == 16
VX_MSG_PANEL_1 == 33
VX_MSG_THIS_PANEL == 34
VX_MSG_PANELS == 32

VX_VARIABLE_STATUS == 163
VX_VARIABLE_FAN_SPEED == 41
VX_VARIABLE_DEFAULT_FAN_SPEED == 169
VX_VARIABLE_RH1 == 47
VX_VARIABLE_RH2 == 48
VX_VARIABLE_SERVICE_PERIOD == 166
VX_VARIABLE_SERVICE_COUNTER == 171
VX_VARIABLE_T_OUTSIDE == 50
VX_VARIABLE_T_INSIDE == 52
VX_VARIABLE_T_EXHAUST == 51
VX_VARIABLE_T_INCOMING == 53
VX_VARIABLE_IO_08 == 8
VX_VARIABLE_FAULT_CODE == 54
VX_VARIABLE_HEATING_TARGET == 164
VX_VARIABLE_FLAGS_06 == 113
VX_VARIABLE_PROGRAM == 170
VX_VARIABLE_CO2_HI == 43
VX_VARIABLE_CO2_LO == 44

VX_STATUS_FLAG_POWER == 1
VX_STATUS_FLAG_RH == 4
VX_STATUS_FLAG_HEATING_MODE == 8
VX_STATUS_FLAG_FILTER == 16
VX_STATUS_FLAG_HEATING == 32
VX_STATUS_FLAG_FAULT == 64
VX_STATUS_FLAG_SERVICE == 128

VX_08_FLAG_SUMMER_MODE == 2
VX_08_FLAG_ERROR_RELAY == 4
VX_08_FLAG_MOTOR_IN == 8
VX_08_FLAG_FRONT_HEATING == 16
VX_08_FLAG_MOTOR_OUT == 32
VX_08_FLAG_EXTRA_FUNC == 64

VX_06_FIREPLACE_FLAG_ACTIVATE == 32
VX_06_FIREPLACE_FLAG_IS_ACTIVE == 64
VX_PROGRAM_SWITCH_TYPE == 32

VX_FAN_SPEED_1 == 1
VX_MAX_FAN_SPEED == 8
VX_FAN_SPEEDS == <<1, 3, 7, 15, 31, 63, 127, 255>>

VX_TEMPS ==
  << -74, -70, -66, -62, -59, -56, -54, -52, -50, -48,
     -47, -46, -44, -43, -42, -41, -40, -39, -38, -37,
     -36, -35, -34, -33, -33, -32, -31, -30, -30, -29,
     -28, -28, -27, -27, -26, -25, -25, -24, -24, -23,
     -23, -22, -22, -21, -21, -20, -20, -19, -19, -19,
     -18, -18, -17, -17, -16, -16, -16, -15, -15, -14,
     -14, -14, -13, -13, -12, -12, -12, -11, -11, -11,
     -10, -10, -9, -9, -9, -8, -8, -8, -7, -7,
     -7, -6, -6, -6, -5, -5, -5, -4, -4, -4,
     -3, -3, -3, -2, -2, -2, -1, -1, -1, -1,
     0, 0, 0, 1, 1, 1, 2, 2, 2, 3,
     3, 3, 4, 4, 4, 5, 5, 5, 5, 6,
     6, 6, 7, 7, 7, 8, 8, 8, 9, 9,
     9, 10, 10, 10, 11, 11, 11, 12, 12, 12,
     13, 13, 13, 14, 14, 14, 15, 15, 15, 16,
     16, 16, 17, 17, 18, 18, 18, 19, 19, 19,
     20, 20, 21, 21, 21, 22, 22, 22, 23, 23,
     24, 24, 24, 25, 25, 26, 26, 27, 27, 27,
     28, 28, 29, 29, 30, 30, 31, 31, 32, 32,
     33, 33, 34, 34, 35, 35, 36, 36, 37, 37,
     38, 38, 39, 40, 40, 41, 41, 42, 43, 43,
     44, 45, 45, 46, 47, 48, 48, 49, 50, 51,
     52, 53, 53, 54, 55, 56, 57, 59, 60, 61,
     62, 63, 65, 66, 68, 69, 71, 73, 75, 77,
     79, 81, 82, 86, 90, 93, 97, 100, 100, 100,
     100, 100, 100, 100, 100, 100 >>

NOT_SET == -999
\* QUERY_INTERVAL and RETRY_INTERVAL are seconds, CO2_LIFE_TIME_MS is
\* milliseconds; the clock of the model counts milliseconds
QUERY_INTERVAL == 300
RETRY_INTERVAL == 5
CO2_LIFE_TIME_MS == 2000

\* ValueWithTimestamp defaults: value None, last_received 0.0
None == -1000
Never == 0
\* truth value of a clock reading stored in last_received
Received == 1

\* ------------------------------------------------------------------------
\* Integer helpers for Python's bit operators on a single-bit mask
\* ------------------------------------------------------------------------
BitSet(x, mask) == (x \div mask) % 2 = 1

\* x & mask
BitAnd(x, mask) == IF BitSet(x, mask) THEN mask ELSE 0

\* x | mask
BitOr(x, mask) == IF BitSet(x, mask) THEN x ELSE x + mask

\* x & ~mask
BitClear(x, mask) == IF BitSet(x, mask) THEN x - mask ELSE x

\* Python bool as stored in the dictionary
PyBool(b) == IF b THEN 1 ELSE 0

RECURSIVE SumSeq(_)
SumSeq(s) == IF s = <<>> THEN 0 ELSE Head(s) + SumSeq(Tail(s))

\* list.index(x) as a 1-based position: the first position from i on that
\* holds x, 0 when there is none (ValueError)
IndexFrom(s, x, i) ==
  LET found == {j \in i..Len(s) : s[j] = x}
  IN IF found = {} THEN 0
     ELSE CHOOSE j \in found : \A m \in found : j <= m

\* ------------------------------------------------------------------------
\* Conversion methods
\* ------------------------------------------------------------------------
\* the table indexed with fan instead of fan - 1
_fan_speed_to_hex_index_fan(fan) ==
  IF 1 <= fan /\ fan <= 7 THEN VX_FAN_SPEEDS[fan + 1] ELSE VX_FAN_SPEED_1

_fan_speed_to_hex(fan) ==
  IF 1 <= fan /\ fan <= 8 THEN VX_FAN_SPEEDS[fan] ELSE VX_FAN_SPEED_1

_hex_to_fan_speed(hex_val) ==
  LET i == IndexFrom(VX_FAN_SPEEDS, hex_val, 1)
  IN IF i = 0 THEN NOT_SET ELSE i

_ntc_to_cel(ntc) ==
  IF 0 <= ntc /\ ntc < Len(VX_TEMPS) THEN VX_TEMPS[ntc + 1] ELSE NOT_SET

\* the position in the table counted from one
_cel_to_ntc_from_one(cel) ==
  IF IndexFrom(VX_TEMPS, cel, 1) = 0 THEN 131
  ELSE IndexFrom(VX_TEMPS, cel, 1)

_cel_to_ntc(cel) ==
  LET i == IndexFrom(VX_TEMPS, cel, 1)
  IN IF i = 0 THEN 131 ELSE i - 1

\* int((hex_val - 51) / 2.04): the quotient is not negative, int() is floor
_hex_to_rh(hex_val) ==
  IF hex_val >= 51 THEN ((hex_val - 51) * 100) \div 204 ELSE NOT_SET

\* ------------------------------------------------------------------------
\* Frame codec
\* ------------------------------------------------------------------------
\* a checksum over sum(message[:4]): the value byte is left out
_calculate_checksum_first_four(message) == SumSeq(SubSeq(message, 1, 4)) % 256

_calculate_checksum(message) == SumSeq(SubSeq(message, 1, 5)) % 256

_validate_checksum(message) == _calculate_checksum(message) = message[6]

\* no sender filter: every sender byte is accepted
ValidSenders_any == 0..255

ValidSenders == {VX_MSG_MAINBOARD_1, VX_MSG_THIS_PANEL, VX_MSG_PANEL_1}

ValidReceivers ==
  {VX_MSG_PANELS, VX_MSG_THIS_PANEL, VX_MSG_PANEL_1, VX_MSG_MAINBOARD_1,
   VX_MSG_MAINBOARDS}

\* bytearray([a, b, c, d, e, 0]) followed by message[5] = checksum
Frame(a, b, c, d, e) ==
  LET message == <<a, b, c, d, e, 0>>
  IN [message EXCEPT ![6] = _calculate_checksum(message)]

\* ------------------------------------------------------------------------
\* Ouman: request and response codec (src/src/devices/ouman.py)
\* ------------------------------------------------------------------------
STX == 2
ACK == 6

\* a Python value: None, or a number num / den (den = 0 for a bool)
PyNone == [some |-> FALSE, num |-> 0, den |-> 0]

PyInt(n) == [some |-> TRUE, num |-> n, den |-> 1]

PyFloat(n, d) == [some |-> TRUE, num |-> n, den |-> d]

PyBoolean(b) == [some |-> TRUE, num |-> PyBool(b), den |-> 0]

\* b[:n] and b[n:]
Take(b, n) == SubSeq(b, 1, IF n < Len(b) THEN n ELSE Len(b))

Drop(b, n) == SubSeq(b, n + 1, Len(b))

\* struct.pack('!h', cmd) for cmd in -32768..32767
pack_h(cmd) == <<(cmd % 65536) \div 256, (cmd % 65536) % 256>>

\* struct.unpack of 'b', '!h' or '!i': big-endian, two's complement
RECURSIVE Unsigned(_)
Unsigned(b) ==
  IF b = <<>> THEN 0
  ELSE Unsigned(SubSeq(b, 1, Len(b) - 1)) * 256 + b[Len(b)]

unpack_signed(b) ==
  (IF b[1] >= 128 THEN b[1] - 256 ELSE b[1]) * 256 ^ (Len(b) - 1)
    + Unsigned(Tail(b))

\* a sum that is not cut to 8 bits
__calc_crc_unmasked(data) == <<SumSeq(data)>>

\* crc is just an 8-bit sum; the result is one byte
__calc_crc(data) == <<SumSeq(data) % 256>>

\* the request, or the struct.error of a command that does not fit '!h'
__fmt_cmd(cmd) ==
  IF cmd \notin -32768..32767
  THEN [out |-> <<>>, err |-> "struct.error"]
  ELSE [out |-> <<STX>> \o <<129, Len(pack_h(cmd))>> \o pack_h(cmd)
                  \o __calc_crc(<<129, Len(pack_h(cmd))>> \o pack_h(cmd)),
        err |-> "none"]

\* what one __read does with the bytes resp the port delivers after the
\* request: the requests written, the value returned and the exception
Returned(buf, v) == [written |-> <<buf.out>>, val |-> v, err |-> "none"]

__read(cmd, s, e, resp) ==
  LET buf == __fmt_cmd(cmd)
      stx == Take(resp, 1)
      ack == Take(Drop(resp, 1), 1)
      datalen == Take(Drop(resp, 2), 1)
  IN IF buf.err # "none"
     THEN [written |-> <<>>, val |-> PyNone, err |-> buf.err]
     ELSE IF stx # <<STX>> THEN Returned(buf, PyNone)
     ELSE IF ack # <<ACK>> THEN Returned(buf, PyNone)
     ELSE IF Len(datalen) # 1 THEN Returned(buf, PyNone)
     ELSE LET n == datalen[1]
              data == Take(Drop(resp, 3), n)
              checksum == Take(Drop(resp, 3 + n), 1)
              crc == __calc_crc(ack \o datalen \o data)
              cmd_str == Take(data, 2)
              payload == Drop(data, 2)
              slice == SubSeq(payload, s + 1,
                              IF e + 1 < Len(payload) THEN e + 1
                              ELSE Len(payload))
              value_len == e - s + 1
          IN IF checksum = <<>> \/ crc # checksum THEN Returned(buf, PyNone)
             ELSE IF Len(cmd_str) # 2
             THEN [Returned(buf, PyNone) EXCEPT !.err = "struct.error"]
             ELSE IF unpack_signed(cmd_str) # cmd THEN Returned(buf, PyNone)
             ELSE IF value_len \notin {1, 2, 4}
             THEN [Returned(buf, PyNone) EXCEPT !.err = "KeyError"]
             ELSE IF Len(slice) # value_len
             THEN [Returned(buf, PyNone) EXCEPT !.err = "struct.error"]
             ELSE Returned(buf, PyInt(unpack_signed(slice)))

\* measure points of OumanEH203 of width 2, 2 (binary), 1 and 4
OumanPoints ==
  << [idx |-> 18, mask |-> 0, name |-> "outdoor_temperature",
      datastart |-> 0, dataend |-> 1, divisor |-> 100, kind |-> "numeric"],
     [idx |-> 45, mask |-> 1, name |-> "digital_input1",
      datastart |-> 0, dataend |-> 1, divisor |-> 1, kind |-> "binary"],
     [idx |-> 49, mask |-> 0, name |-> "h1_valve_position",
      datastart |-> 0, dataend |-> 0, divisor |-> 1, kind |-> "numeric"],
     [idx |-> 60, mask |-> 0, name |-> "peak_power",
      datastart |-> 0, dataend |-> 3, divisor |-> 1, kind |-> "numeric"] >>

\* BinaryMeasurePoint.parse and NumericMeasurePoint.parse
parse(mp, raw_value) ==
  IF ~raw_value.some THEN PyNone
  ELSE IF mp.kind = "binary"
  THEN PyBoolean(BitAnd(raw_value.num % 65536, mp.mask) # 0)
  ELSE PyFloat(raw_value.num, mp.divisor)

\* MeasurePoint.read of point i on the device o, the port delivering resp
MeasurePoint_read(o, i, resp) ==
  LET mp == OumanPoints[i]
      r == __read(mp.idx, mp.datastart, mp.dataend, resp)
      new_value == parse(mp, r.val)
  IN IF o.err # "none" THEN o
     ELSE IF r.err # "none"
     THEN [o EXCEPT !.written = @ \o r.written, !.err = r.err]
     ELSE [o EXCEPT !.written = @ \o r.written,
                    !.measurepoints[i] = [_raw_value |-> r.val,
                                          _value |-> new_value],
                    !.notified = IF new_value # o.measurepoints[i]._value
                                 THEN Append(@, mp.name) ELSE @]

\* read_all, the port delivering responses[i] to the read of point i; a
\* read that raises ends the loop
RECURSIVE read_all_from(_, _, _)
read_all_from(o, i, responses) ==
  IF i > Len(OumanPoints) \/ o.err # "none" THEN o
  ELSE read_all_from(MeasurePoint_read(o, i, responses[i]), i + 1, responses)

read_all(o, responses) == read_all_from(o, 1, responses)

\* ------------------------------------------------------------------------
\* State
\* ------------------------------------------------------------------------
VARIABLES
  serial_open,       \* self.serial is set and is_open
  rx,                \* bytes waiting in the transport's input buffer
  data,              \* self.data without its 'updated' key
  updated,           \* self.data['updated']
  settings,          \* self.settings
  full_init_done,
  last_requested,
  last_retry_loop,
  status_mutex,
  now,               \* time.monotonic(), ms
  notified,          \* names passed to status_changed_callback, last handler
  observed,          \* the flags each of these callbacks could read
  written,           \* frames passed to serial.write, last handler
  decoded,           \* frames _decode_message accepted, last handler
  err,               \* exception that left the last handler, or "none"
  calls,             \* the caller's record of the calls it made
  measurepoints,     \* _raw_value and _value of the Ouman measure points
  poll_task          \* the task running poll_device

vars ==
  <<serial_open, rx, data, updated, settings, full_init_done, last_requested,
    last_retry_loop, status_mutex, now, notified, observed, written,
    decoded, err, calls, measurepoints, poll_task>>

\* keys of self.data in insertion order
DataKeys ==
  << "updated",
     "is_on", "is_rh_mode", "is_heating_mode", "is_filter", "is_heating",
     "is_fault", "is_service_needed", "is_summer_mode", "is_error_relay",
     "is_motor_in", "is_front_heating", "is_motor_out", "is_extra_func",
     "is_switch_active",
     "outside_temp", "inside_temp", "exhaust_temp", "incoming_temp",
     "rh1", "rh2", "co2_hi", "co2_lo", "co2",
     "fan_speed", "default_fan_speed", "service_period", "service_counter",
     "heating_target",
     "status", "variable08", "flags06" >>

DataFields == {DataKeys[i] : i \in 2..Len(DataKeys)}

SettingsFields == {"is_boost_setting", "program"}

ValueWithTimestamp == [value |-> None, last_received |-> Never]

\* The engine as one record, so that a handler is a function of it.  failAt
\* is the transport's behaviour during the handler: the failAt-th write
\* raises (0: every write succeeds).
Engine(failAt) ==
  [serial_open |-> serial_open, rx |-> rx, data |-> data, updated |-> updated,
   settings |-> settings, full_init_done |-> full_init_done,
   last_requested |-> last_requested, last_retry_loop |-> last_retry_loop,
   status_mutex |-> status_mutex, now |-> now,
   notified |-> <<>>, observed |-> <<>>, written |-> <<>>,
   decoded |-> <<>>, err |-> "none", failAt |-> failAt, reads |-> <<>>]

\* the engine's fields after the handler returned or raised
CommitEngine(s) ==
  /\ serial_open' = s.serial_open
  /\ rx' = s.rx
  /\ data' = s.data
  /\ updated' = s.updated
  /\ settings' = s.settings
  /\ full_init_done' = s.full_init_done
  /\ last_requested' = s.last_requested
  /\ last_retry_loop' = s.last_retry_loop
  /\ status_mutex' = s.status_mutex
  /\ now' = s.now
  /\ notified' = s.notified
  /\ observed' = s.observed
  /\ written' = s.written
  /\ decoded' = s.decoded
  /\ err' = s.err
  /\ measurepoints' = measurepoints

\* the handler's result becomes the next state; c is the caller's record of
\* its calls
CommitAs(s, c) ==
  /\ CommitEngine(s)
  /\ calls' = c
  /\ poll_task' = poll_task

Commit(s) == CommitAs(s, calls)

Ok(s) == s.err = "none"

Raise(s, e) == IF Ok(s) THEN [s EXCEPT !.err = e] ELSE s

\* self.data[name].value = v
SetValue(s, name, v) ==
  IF Ok(s) THEN [s EXCEPT !.data[name].value = v] ELSE s

\* self.data[name].last_received = now, for each name
Stamp(s, names) ==
  IF Ok(s)
  THEN [s EXCEPT !.data =
          [n \in DataFields |->
             IF n \in names
             THEN [@[n] EXCEPT !.last_received =
                     IF n \in {"co2_hi", "co2_lo"} THEN s.now ELSE Received]
             ELSE @[n]]]
  ELSE s

\* self.serial.write(message)
SerialWrite(s, message) ==
  IF ~Ok(s) THEN s
  ELSE IF s.failAt = 1 THEN Raise(s, "SerialException")
  ELSE [s EXCEPT !.written = Append(@, message),
                 !.failAt = IF @ = 0 THEN 0 ELSE @ - 1]

\* ------------------------------------------------------------------------
\* Change dispatcher
\* ------------------------------------------------------------------------
\* the boolean fields derived from the status byte and from variable 08
FanOutFlags ==
  {"is_on", "is_rh_mode", "is_heating_mode", "is_filter", "is_heating",
   "is_fault", "is_service_needed", "is_summer_mode", "is_error_relay",
   "is_motor_in", "is_front_heating", "is_motor_out", "is_extra_func"}

\* the callback runs inside the call and can read the store as it is then
_call_status_changed(s, name) ==
  IF Ok(s)
  THEN [s EXCEPT !.notified = Append(@, name),
                 !.observed = Append(@, [n \in FanOutFlags |-> s.data[n].value])]
  ELSE s

\* a dispatcher without the equality test (line 821 dropped): every decoded
\* value is stored, stamped and, once initialised, notified
_check_status_change_no_compare(s, name, new_value) ==
  IF ~Ok(s) THEN s
  ELSE IF s.full_init_done
  THEN _call_status_changed(
         [s EXCEPT !.data[name].value = new_value, !.updated = s.now], name)
  ELSE [s EXCEPT !.data[name].value = new_value, !.updated = s.now]

_check_status_change(s, name, new_value) ==
  IF ~Ok(s) THEN s
  ELSE IF s.data[name].value # new_value
  THEN LET s1 == [s EXCEPT !.data[name].value = new_value, !.updated = s.now]
       IN IF s.full_init_done THEN _call_status_changed(s1, name) ELSE s1
  ELSE s

_handle_co2_total_value(s, hi, lo) ==
  IF ~Ok(s) THEN s
  ELSE IF hi = None \/ lo = None THEN Raise(s, "TypeError")
  ELSE _check_status_change(s, "co2", lo + hi * 256)

_is_temperature_init_done(s) ==
  /\ s.data["outside_temp"].last_received # Never
  /\ s.data["inside_temp"].last_received # Never
  /\ s.data["exhaust_temp"].last_received # Never
  /\ s.data["incoming_temp"].last_received # Never

_is_status_init_done(s) ==
  /\ s.data["is_on"].last_received # Never
  /\ s.data["is_rh_mode"].last_received # Never
  /\ s.data["is_heating_mode"].last_received # Never
  /\ s.data["variable08"].last_received # Never
  /\ s.data["is_filter"].last_received # Never
  /\ s.data["is_heating"].last_received # Never
  /\ s.data["is_fault"].last_received # Never
  /\ s.data["is_service_needed"].last_received # Never
  /\ s.data["fan_speed"].last_received # Never
  /\ s.data["default_fan_speed"].last_received # Never
  /\ s.data["service_period"].last_received # Never
  /\ s.data["service_counter"].last_received # Never
  /\ s.data["heating_target"].last_received # Never

\* ------------------------------------------------------------------------
\* Decoding
\* ------------------------------------------------------------------------
\* self._check_status_change(name, (byte & mask) != 0) for each <<name, mask>>
RECURSIVE CheckFlags(_, _, _)
CheckFlags(s, byte, flags) ==
  IF flags = <<>> THEN s
  ELSE CheckFlags(_check_status_change(s, Head(flags)[1],
                    PyBool(BitAnd(byte, Head(flags)[2]) # 0)),
                  byte, Tail(flags))

\* the status flags with the RH mask taken one bit too low (0x02)
StatusFlags_rh_mask_2 ==
  << <<"is_on", VX_STATUS_FLAG_POWER>>,
     <<"is_rh_mode", 2>>,
     <<"is_heating_mode", VX_STATUS_FLAG_HEATING_MODE>>,
     <<"is_filter", VX_STATUS_FLAG_FILTER>>,
     <<"is_heating", VX_STATUS_FLAG_HEATING>>,
     <<"is_fault", VX_STATUS_FLAG_FAULT>>,
     <<"is_service_needed", VX_STATUS_FLAG_SERVICE>> >>

StatusFlags ==
  << <<"is_on", VX_STATUS_FLAG_POWER>>,
     <<"is_rh_mode", VX_STATUS_FLAG_RH>>,
     <<"is_heating_mode", VX_STATUS_FLAG_HEATING_MODE>>,
     <<"is_filter", VX_STATUS_FLAG_FILTER>>,
     <<"is_heating", VX_STATUS_FLAG_HEATING>>,
     <<"is_fault", VX_STATUS_FLAG_FAULT>>,
     <<"is_service_needed", VX_STATUS_FLAG_SERVICE>> >>

Variable08Flags ==
  << <<"is_summer_mode", VX_08_FLAG_SUMMER_MODE>>,
     <<"is_error_relay", VX_08_FLAG_ERROR_RELAY>>,
     <<"is_motor_in", VX_08_FLAG_MOTOR_IN>>,
     <<"is_front_heating", VX_08_FLAG_FRONT_HEATING>>,
     <<"is_motor_out", VX_08_FLAG_MOTOR_OUT>>,
     <<"is_extra_func", VX_08_FLAG_EXTRA_FUNC>> >>

\* self.status_mutex = False
ClearMutex(s) == IF Ok(s) THEN [s EXCEPT !.status_mutex = FALSE] ELSE s

_decode_status(s, status) ==
  ClearMutex(
    CheckFlags(
      Stamp(SetValue(Stamp(s, {StatusFlags[i][1] : i \in 1..Len(StatusFlags)}),
                     "status", status),
            {"status"}),
      status, StatusFlags))

_decode_variable08(s, variable08) ==
  CheckFlags(
    Stamp(SetValue(Stamp(s, {Variable08Flags[i][1] :
                               i \in 1..Len(Variable08Flags)}),
                   "variable08", variable08),
          {"variable08"}),
    variable08, Variable08Flags)

_decode_flags06(s, flags06) ==
  CheckFlags(
    Stamp(SetValue(Stamp(s, {"is_switch_active"}), "flags06", flags06),
          {"flags06"}),
    flags06, << <<"is_switch_active", VX_06_FIREPLACE_FLAG_IS_ACTIVE>> >>)

_decode_program(s, program) ==
  LET should_inform == s.settings["is_boost_setting"].last_received = Never
      old_value == s.settings["is_boost_setting"].value
      new_value == PyBool(BitAnd(program, VX_PROGRAM_SWITCH_TYPE) # 0)
      s1 == [s EXCEPT !.settings["is_boost_setting"].last_received = Received,
                      !.settings["program"].value = program,
                      !.settings["program"].last_received = Received]
  IN IF ~Ok(s) THEN s
     ELSE IF old_value # new_value
     THEN _call_status_changed(
            [s1 EXCEPT !.settings["is_boost_setting"].value = new_value],
            "is_boost_setting")
     ELSE IF should_inform THEN _call_status_changed(s1, "is_boost_setting")
     ELSE s1

\* a snapshot of the fourteen boolean flags only (keys 2..15 of the store)
RECURSIVE CallForFlagKeys(_, _)
CallForFlagKeys(s, i) ==
  IF i > 14 THEN s
  ELSE CallForFlagKeys(_call_status_changed(s, DataKeys[i + 1]), i + 1)

\* for k, _ in self.data.items(): self._call_status_changed(k)
RECURSIVE CallForKeys(_, _)
CallForKeys(s, i) ==
  IF i > Len(DataKeys) THEN s
  ELSE CallForKeys(_call_status_changed(s, DataKeys[i]), i + 1)

\* the total built whenever the other half has a value, whatever its age
Co2Total_no_window(s, other) ==
  IF ~Ok(s) THEN s
  ELSE IF s.data[other].value # None
  THEN _handle_co2_total_value(s, s.data["co2_hi"].value,
                               s.data["co2_lo"].value)
  ELSE s

\* after one CO2 half is stored: the total is built if the other half is
\* younger than the CO2 life time
Co2Total(s, other) ==
  IF ~Ok(s) THEN s
  ELSE IF s.now - s.data[other].last_received < CO2_LIFE_TIME_MS
  THEN _handle_co2_total_value(s, s.data["co2_hi"].value,
                               s.data["co2_lo"].value)
  ELSE s

\* the branch of _decode_message chosen by the variable byte
DecodeVariable(s, variable, value) ==
  IF variable = VX_VARIABLE_T_OUTSIDE
  THEN _check_status_change(s, "outside_temp", _ntc_to_cel(value))
  ELSE IF variable = VX_VARIABLE_T_EXHAUST
  THEN _check_status_change(s, "exhaust_temp", _ntc_to_cel(value))
  ELSE IF variable = VX_VARIABLE_T_INSIDE
  THEN _check_status_change(s, "inside_temp", _ntc_to_cel(value))
  ELSE IF variable = VX_VARIABLE_T_INCOMING
  THEN _check_status_change(s, "incoming_temp", _ntc_to_cel(value))
  ELSE IF variable = VX_VARIABLE_RH1
  THEN _check_status_change(s, "rh1", _hex_to_rh(value))
  ELSE IF variable = VX_VARIABLE_RH2
  THEN \* _check_status_change is called with one argument too many
       Raise(s, "TypeError")
  ELSE IF variable = VX_VARIABLE_CO2_HI
  THEN Co2Total(SetValue(Stamp(s, {"co2_hi"}), "co2_hi", value), "co2_lo")
  ELSE IF variable = VX_VARIABLE_CO2_LO
  THEN Co2Total(SetValue(Stamp(s, {"co2_lo"}), "co2_lo", value), "co2_hi")
  ELSE IF variable = VX_VARIABLE_FAN_SPEED
  THEN _check_status_change(Stamp(s, {"fan_speed"}), "fan_speed",
                            _hex_to_fan_speed(value))
  ELSE IF variable = VX_VARIABLE_DEFAULT_FAN_SPEED
  THEN _check_status_change(Stamp(s, {"default_fan_speed"}),
                            "default_fan_speed", _hex_to_fan_speed(value))
  ELSE IF variable = VX_VARIABLE_STATUS THEN _decode_status(s, value)
  ELSE IF variable = VX_VARIABLE_IO_08 THEN _decode_variable08(s, value)
  ELSE IF variable = VX_VARIABLE_FLAGS_06 THEN _decode_flags06(s, value)
  ELSE IF variable = VX_VARIABLE_SERVICE_PERIOD
  THEN _check_status_change(Stamp(s, {"service_period"}), "service_period",
                            value)
  ELSE IF variable = VX_VARIABLE_SERVICE_COUNTER
  THEN _check_status_change(Stamp(s, {"service_counter"}), "service_counter",
                            value)
  ELSE IF variable = VX_VARIABLE_HEATING_TARGET
  THEN _check_status_change(Stamp(s, {"heating_target"}), "heating_target",
                            _ntc_to_cel(value))
  ELSE IF variable = VX_VARIABLE_PROGRAM THEN _decode_program(s, value)
  ELSE s

\* the initialisation check without the guard of line 581: the snapshot
\* fires at every frame decoded while the store is complete
CheckInitDone_unguarded(s) ==
  IF Ok(s) /\ _is_status_init_done(s)
  THEN CallForKeys([s EXCEPT !.full_init_done = TRUE], 1)
  ELSE s

\* if not self.full_init_done: ... at the end of _decode_message
CheckInitDone(s) ==
  IF Ok(s) /\ ~s.full_init_done
  THEN IF _is_status_init_done(s)
       THEN CallForKeys([s EXCEPT !.full_init_done = TRUE], 1)
       ELSE s
  ELSE s

_decode_message(s, message) ==
  IF ~Ok(s) \/ ~_validate_checksum(message) THEN s
  ELSE CheckInitDone(DecodeVariable([s EXCEPT !.decoded = Append(@, message)],
                                    message[4], message[5]))

\* ------------------------------------------------------------------------
\* Serial communication
\* ------------------------------------------------------------------------
\* _read_message: the message it returns (<<>> for None) and the bytes it
\* leaves in the input buffer
\* a reader that does not wait for six bytes (no in_waiting test): read(1)
\* and read(3) return what there is
_read_message_no_wait(s) ==
  IF ~s.serial_open \/ s.rx = <<>>
  THEN [message |-> <<>>, rx |-> s.rx]
  ELSE IF s.rx[1] # VX_MSG_DOMAIN
  THEN [message |-> <<>>, rx |-> SubSeq(s.rx, 2, Len(s.rx))]
  ELSE IF Len(s.rx) < 3
  THEN [message |-> <<>>, rx |-> <<>>]
  ELSE IF ~(s.rx[2] \in ValidSenders /\ s.rx[3] \in ValidReceivers)
  THEN [message |-> <<>>, rx |-> SubSeq(s.rx, 4, Len(s.rx))]
  ELSE IF Len(s.rx) < VX_MSG_LENGTH
  THEN [message |-> <<>>, rx |-> <<>>]
  ELSE [message |-> SubSeq(s.rx, 1, VX_MSG_LENGTH),
        rx |-> SubSeq(s.rx, VX_MSG_LENGTH + 1, Len(s.rx))]

_read_message(s) ==
  IF ~s.serial_open \/ Len(s.rx) < VX_MSG_LENGTH
  THEN [message |-> <<>>, rx |-> s.rx]
  ELSE IF s.rx[1] # VX_MSG_DOMAIN
  THEN [message |-> <<>>, rx |-> SubSeq(s.rx, 2, Len(s.rx))]
  ELSE IF ~(s.rx[2] \in ValidSenders /\ s.rx[3] \in ValidReceivers)
  THEN [message |-> <<>>, rx |-> SubSeq(s.rx, 4, Len(s.rx))]
  ELSE [message |-> SubSeq(s.rx, 1, VX_MSG_LENGTH),
        rx |-> SubSeq(s.rx, VX_MSG_LENGTH + 1, Len(s.rx))]

\* a drain that decodes the first message of a tick and throws away what
\* else is in the input buffer
ReadAndDecodeAll_first_only(s) ==
  IF ~Ok(s) THEN s
  ELSE IF _read_message(s).message = <<>>
  THEN [s EXCEPT !.rx = _read_message(s).rx]
  ELSE _decode_message([s EXCEPT !.rx = <<>>], _read_message(s).message)

\* one iteration of the drain loop, as recorded in the field reads: the
\* bytes waiting before and after the call of _read_message and the message
\* it returned
Read(s) ==
  [s EXCEPT !.rx = _read_message(s).rx,
            !.reads = Append(@, [before |-> Len(s.rx),
                                 after |-> Len(_read_message(s).rx),
                                 message |-> _read_message(s).message])]

\* while True: message = self._read_message(); ...; self._decode_message(message)
\* an exception that leaves _decode_message leaves loop(): nothing more is
\* read
RECURSIVE ReadAndDecodeAll(_)
ReadAndDecodeAll(s) ==
  IF ~Ok(s) THEN s
  ELSE IF _read_message(s).message = <<>>
  THEN Read(s)
  ELSE ReadAndDecodeAll(_decode_message(Read(s), _read_message(s).message))

\* a set command that is not repeated towards the panels
_set_variable_once(s, variable, value, target) ==
  IF ~Ok(s) \/ ~s.serial_open THEN s
  ELSE SerialWrite(s, Frame(VX_MSG_DOMAIN, VX_MSG_THIS_PANEL, target,
                            variable, value))

_set_variable(s, variable, value, target) ==
  IF ~Ok(s) \/ ~s.serial_open THEN s
  ELSE SerialWrite(
         SerialWrite(s, Frame(VX_MSG_DOMAIN, VX_MSG_THIS_PANEL, target,
                              variable, value)),
         Frame(VX_MSG_DOMAIN, VX_MSG_MAINBOARD_1, VX_MSG_PANELS, variable,
               value))

\* self.last_retry_loop = time.monotonic()
MarkRetry(s) == IF Ok(s) THEN [s EXCEPT !.last_retry_loop = s.now] ELSE s

\* the engine after _set_status_variable; it returns True exactly when the
\* mutex was free and the write did not raise
_set_status_variable(s, variable, value) ==
  IF ~Ok(s) \/ s.status_mutex THEN s
  ELSE MarkRetry(_set_variable([s EXCEPT !.status_mutex = TRUE], variable,
                               value, VX_MSG_MAINBOARD_1))

_request_variable(s, variable) ==
  IF ~Ok(s) \/ ~s.serial_open THEN s
  ELSE SerialWrite(s, Frame(VX_MSG_DOMAIN, VX_MSG_THIS_PANEL,
                            VX_MSG_MAINBOARD_1, VX_MSG_POLL_BYTE, variable))

RECURSIVE RequestAll(_, _)
RequestAll(s, variables) ==
  IF variables = <<>> THEN s
  ELSE RequestAll(_request_variable(s, Head(variables)), Tail(variables))

\* self.data['updated'] = self.last_requested = time.monotonic()
MarkRequested(s) ==
  IF Ok(s) THEN [s EXCEPT !.updated = s.now, !.last_requested = s.now] ELSE s

request_config(s) ==
  MarkRequested(
    RequestAll(s,
      <<VX_VARIABLE_STATUS, VX_VARIABLE_IO_08, VX_VARIABLE_FAN_SPEED,
        VX_VARIABLE_DEFAULT_FAN_SPEED, VX_VARIABLE_RH1,
        VX_VARIABLE_SERVICE_PERIOD, VX_VARIABLE_SERVICE_COUNTER,
        VX_VARIABLE_HEATING_TARGET, VX_VARIABLE_FLAGS_06,
        VX_VARIABLE_PROGRAM>>))

\* a retry that asks for all seven variables, received or not
MissingRequests_all(s) ==
  <<VX_VARIABLE_STATUS, VX_VARIABLE_IO_08, VX_VARIABLE_FAN_SPEED,
    VX_VARIABLE_DEFAULT_FAN_SPEED, VX_VARIABLE_SERVICE_PERIOD,
    VX_VARIABLE_SERVICE_COUNTER, VX_VARIABLE_HEATING_TARGET>>

\* the variables _send_missing_requests asks for, in its order
MissingRequests(s) ==
  LET need(name, variable) ==
        IF s.data[name].last_received = Never THEN <<variable>> ELSE <<>>
  IN need("is_on", VX_VARIABLE_STATUS)
       \o need("variable08", VX_VARIABLE_IO_08)
       \o need("fan_speed", VX_VARIABLE_FAN_SPEED)
       \o need("default_fan_speed", VX_VARIABLE_DEFAULT_FAN_SPEED)
       \o need("service_period", VX_VARIABLE_SERVICE_PERIOD)
       \o need("service_counter", VX_VARIABLE_SERVICE_COUNTER)
       \o need("heating_target", VX_VARIABLE_HEATING_TARGET)

_send_missing_requests(s) == RequestAll(s, MissingRequests(s))

\* a retry that leaves the guard as it is
_retry_loop_keeps_mutex(s) == MarkRetry(_send_missing_requests(s))

_retry_loop(s) == MarkRetry(ClearMutex(_send_missing_requests(s)))

\* periodic queries that do not wait for status initialisation
PeriodicQueries_no_init_test(s) ==
  IF Ok(s) /\ s.now - s.last_requested > QUERY_INTERVAL * 1000
  THEN RequestAll([s EXCEPT !.last_requested = s.now],
                  <<VX_VARIABLE_IO_08, VX_VARIABLE_SERVICE_COUNTER>>)
  ELSE s

\* the periodic queries of loop()
PeriodicQueries(s) ==
  IF Ok(s) /\ s.now - s.last_requested > QUERY_INTERVAL * 1000
  THEN IF _is_status_init_done(s)
       THEN RequestAll([s EXCEPT !.last_requested = s.now],
                       <<VX_VARIABLE_IO_08, VX_VARIABLE_SERVICE_COUNTER>>)
       ELSE [s EXCEPT !.last_requested = s.now]
  ELSE s

\* the retry step of loop()
RetryIfDue(s) ==
  IF Ok(s) /\ s.now - s.last_retry_loop > RETRY_INTERVAL * 1000
  THEN _retry_loop(s)
  ELSE s

loop(s) == RetryIfDue(PeriodicQueries(ReadAndDecodeAll(s)))

\* ------------------------------------------------------------------------
\* Connection
\* ------------------------------------------------------------------------
\* a connect that clears full_init_done before it tries to open the port, so
\* that a failed open on a live connection loses the initialisation
connect_clears_first(s, opened) ==
  IF ~opened THEN [s EXCEPT !.full_init_done = FALSE]
  ELSE [request_config([s EXCEPT !.serial_open = TRUE, !.rx = <<>>,
                                  !.full_init_done = FALSE])
          EXCEPT !.err = "none"]

\* opened: serial.Serial(...) returned (it raises otherwise, and connect
\* catches every exception and returns False)
connect(s, opened) ==
  IF ~opened THEN s
  ELSE [request_config([s EXCEPT !.serial_open = TRUE, !.rx = <<>>,
                                  !.full_init_done = FALSE])
          EXCEPT !.err = "none"]

\* what connect() returns to its caller
connect_returns(s, opened) ==
  /\ opened
  /\ Ok(request_config([s EXCEPT !.serial_open = TRUE, !.rx = <<>>,
                                  !.full_init_done = FALSE]))

disconnect(s) ==
  IF s.serial_open THEN [s EXCEPT !.serial_open = FALSE, !.rx = <<>>] ELSE s

\* ------------------------------------------------------------------------
\* Setters
\* ------------------------------------------------------------------------
set_fan_speed(s, speed) ==
  IF speed <= VX_MAX_FAN_SPEED
  THEN _call_status_changed(
         SetValue(_set_variable(s, VX_VARIABLE_FAN_SPEED, _fan_speed_to_hex(speed),
                                VX_MSG_MAINBOARDS),
                  "fan_speed", speed),
         "fan_speed")
  ELSE s

set_default_fan_speed(s, speed) ==
  IF speed <= VX_MAX_FAN_SPEED
  THEN _call_status_changed(
         SetValue(_set_variable(s, VX_VARIABLE_DEFAULT_FAN_SPEED, _fan_speed_to_hex(speed),
                                VX_MSG_MAINBOARDS),
                  "default_fan_speed", speed),
         "default_fan_speed")
  ELSE s

set_service_period(s, months) ==
  IF 0 <= months /\ months < 256
  THEN _call_status_changed(
         SetValue(_set_variable(s, VX_VARIABLE_SERVICE_PERIOD, months,
                                VX_MSG_MAINBOARDS),
                  "service_period", months),
         "service_period")
  ELSE s

set_service_counter(s, months) ==
  IF 0 <= months /\ months < 256
  THEN _call_status_changed(
         SetValue(_set_variable(s, VX_VARIABLE_SERVICE_COUNTER, months,
                                VX_MSG_MAINBOARDS),
                  "service_counter", months),
         "service_counter")
  ELSE s

\* a heating target setter that accepts 28 degrees
set_heating_target_to_28(s, celsius) ==
  IF 10 <= celsius /\ celsius <= 28
  THEN _call_status_changed(
         SetValue(_set_variable(s, VX_VARIABLE_HEATING_TARGET, _cel_to_ntc(celsius),
                                VX_MSG_MAINBOARDS),
                  "heating_target", celsius),
         "heating_target")
  ELSE s

set_heating_target(s, celsius) ==
  IF 10 <= celsius /\ celsius <= 27
  THEN _call_status_changed(
         SetValue(_set_variable(s, VX_VARIABLE_HEATING_TARGET, _cel_to_ntc(celsius),
                                VX_MSG_MAINBOARDS),
                  "heating_target", celsius),
         "heating_target")
  ELSE s

\* the body shared by set_on, set_off, set_rh_mode_on and set_rh_mode_off:
\* the argument status | flag or status & ~flag is evaluated first and
\* raises TypeError while the shadow status byte is None
SetStatusFlag(s, name, flag, on) ==
  IF s.data["status"].value = None THEN Raise(s, "TypeError")
  ELSE IF s.status_mutex THEN s
  ELSE _call_status_changed(
         SetValue(_set_status_variable(s, VX_VARIABLE_STATUS,
                    IF on THEN BitOr(s.data["status"].value, flag)
                    ELSE BitClear(s.data["status"].value, flag)),
                  name, PyBool(on)),
         name)

set_on(s) == SetStatusFlag(s, "is_on", VX_STATUS_FLAG_POWER, TRUE)

set_off(s) == SetStatusFlag(s, "is_on", VX_STATUS_FLAG_POWER, FALSE)

set_rh_mode_on(s) == SetStatusFlag(s, "is_rh_mode", VX_STATUS_FLAG_RH, TRUE)

set_rh_mode_off(s) == SetStatusFlag(s, "is_rh_mode", VX_STATUS_FLAG_RH, FALSE)

set_heating_mode_on(s) ==
  IF s.data["status"].value = None THEN Raise(s, "TypeError")
  ELSE IF BitAnd(s.data["status"].value, VX_STATUS_FLAG_HEATING_MODE) # 0
  THEN _call_status_changed(s, "is_heating_mode")
  ELSE SetStatusFlag(s, "is_heating_mode", VX_STATUS_FLAG_HEATING_MODE, TRUE)

set_heating_mode_off(s) ==
  IF s.data["status"].value = None THEN Raise(s, "TypeError")
  ELSE IF BitAnd(s.data["status"].value, VX_STATUS_FLAG_HEATING_MODE) = 0
  THEN _call_status_changed(s, "is_heating_mode")
  ELSE SetStatusFlag(s, "is_heating_mode", VX_STATUS_FLAG_HEATING_MODE, FALSE)

set_switch_on(s) ==
  IF s.data["flags06"].value = None THEN Raise(s, "TypeError")
  ELSE _set_variable(s, VX_VARIABLE_FLAGS_06,
                     BitOr(s.data["flags06"].value,
                           VX_06_FIREPLACE_FLAG_ACTIVATE),
                     VX_MSG_MAINBOARDS)

\* ------------------------------------------------------------------------
\* Bounds and inputs
\* ------------------------------------------------------------------------
\* frames the input buffer holds at most
MaxRxFrames == 1
\* the transport may fail at the first .. MaxFailAt-th write of a handler
MaxFailAt == 1

FailPoints == 0..MaxFailAt

\* a frame as the mainboard sends it to the panels
FromMainboard(variable, value) ==
  Frame(VX_MSG_DOMAIN, VX_MSG_MAINBOARD_1, VX_MSG_PANELS, variable, value)

\* ------------------------------------------------------------------------
\* Actions
\* ------------------------------------------------------------------------
InitAt(clocks) ==
  /\ serial_open = FALSE
  /\ rx = <<>>
  /\ data = [n \in DataFields |-> ValueWithTimestamp]
  /\ updated = 0
  /\ settings = [n \in SettingsFields |-> ValueWithTimestamp]
  /\ full_init_done = FALSE
  /\ last_requested = 0
  /\ last_retry_loop = 0
  /\ status_mutex = FALSE
  /\ now \in clocks
  /\ notified = <<>>
  /\ observed = <<>>
  /\ written = <<>>
  /\ decoded = <<>>
  /\ err = "none"
  /\ calls = <<>>
  /\ measurepoints = [i \in 1..Len(OumanPoints) |->
                        [_raw_value |-> PyNone, _value |-> PyNone]]
  /\ poll_task = "created"

\* the bus delivers bytes to the open port
Receive(bytes, capacity) ==
  /\ serial_open
  /\ Len(rx) + Len(bytes) <= capacity * VX_MSG_LENGTH
  /\ Commit([Engine(0) EXCEPT !.rx = rx \o bytes])

\* time passes
Advance(d, limit) ==
  /\ now + d <= limit
  /\ Commit([Engine(0) EXCEPT !.now = now + d])

Connect(opened, failAt) == Commit(connect(Engine(failAt), opened))

Disconnect == Commit(disconnect(Engine(0)))

Loop(failAt) == Commit(loop(Engine(failAt)))

SetFanSpeed(speed, failAt) == Commit(set_fan_speed(Engine(failAt), speed))

SetDefaultFanSpeed(speed, failAt) ==
  Commit(set_default_fan_speed(Engine(failAt), speed))

SetServicePeriod(months, failAt) ==
  Commit(set_service_period(Engine(failAt), months))

SetServiceCounter(months, failAt) ==
  Commit(set_service_counter(Engine(failAt), months))

SetHeatingTarget(celsius, failAt) ==
  Commit(set_heating_target(Engine(failAt), celsius))

SetOn(failAt) == Commit(set_on(Engine(failAt)))

SetOff(failAt) == Commit(set_off(Engine(failAt)))

SetRhModeOn(failAt) == Commit(set_rh_mode_on(Engine(failAt)))

SetRhModeOff(failAt) == Commit(set_rh_mode_off(Engine(failAt)))

SetHeatingModeOn(failAt) == Commit(set_heating_mode_on(Engine(failAt)))

SetHeatingModeOff(failAt) == Commit(set_heating_mode_off(Engine(failAt)))

SetSwitchOn(failAt) == Commit(set_switch_on(Engine(failAt)))

\* ------------------------------------------------------------------------
\* Spec: initialisation of the store.  The bus carries one frame for each
\* field status initialisation waits for and a second fan speed; the caller
\* connects (again), ticks and sets the fan speed; the transport may fail.
\* ------------------------------------------------------------------------
StartClock == 10000
\* the clock moves in steps of TickStep, at most MaxElapsed in all
TickStep == 6000
MaxElapsed == 6000

InitFrames ==
  { FromMainboard(VX_VARIABLE_STATUS, 1),
    FromMainboard(VX_VARIABLE_IO_08, 0),
    FromMainboard(VX_VARIABLE_FAN_SPEED, 7),
    FromMainboard(VX_VARIABLE_FAN_SPEED, 1),
    FromMainboard(VX_VARIABLE_DEFAULT_FAN_SPEED, 1),
    FromMainboard(VX_VARIABLE_SERVICE_PERIOD, 4),
    FromMainboard(VX_VARIABLE_SERVICE_COUNTER, 2),
    FromMainboard(VX_VARIABLE_HEATING_TARGET, 160) }

Init == InitAt({StartClock})

DoConnect == \E opened \in BOOLEAN, failAt \in FailPoints : Connect(opened, failAt)

DoReceive == \E bytes \in InitFrames : Receive(bytes, MaxRxFrames)

DoLoop == Loop(0)

DoSetFanSpeed == \E failAt \in FailPoints : SetFanSpeed(3, failAt)

DoAdvance == Advance(TickStep, StartClock + MaxElapsed)

Next == DoConnect \/ DoReceive \/ DoLoop \/ DoSetFanSpeed \/ DoAdvance

Spec == Init /\ [][Next]_vars

\* ------------------------------------------------------------------------
\* Properties of the initialisation (checked under Spec)
\* ------------------------------------------------------------------------
\* a step of connect() that opened the port: the start of a connection
NewConnection == \E failAt \in FailPoints : Connect(TRUE, failAt)

\* the step completes status initialisation
InitCompletes == ~full_init_done /\ full_init_done'

Occurrences(seq, x) == Cardinality({i \in 1..Len(seq) : seq[i] = x})

\* C2: once init_ok (full_init_done) is true it stays true through every
\* frame, setter, tick and transport error of the same connection: only a
\* connect() that opens a new connection makes it false again.
C2_InitOkMonotone ==
  [][(full_init_done /\ ~NewConnection) => full_init_done']_vars

\* C2 witness: initialised, and a handler has since failed on the transport
C2_Witness == full_init_done /\ err = "SerialException"

\* C3 (as claimed): the status-changed callback is never called while
\* status-initialised is false, whichever handler ran.
C3_NoNotificationBeforeInit == notified # <<>> => full_init_done

\* the frames of Spec that carry one field, with the field and the value the
\* frame decodes to: <<field, frame, decoded value>>
OneFieldFrames ==
  { <<"fan_speed", FromMainboard(VX_VARIABLE_FAN_SPEED, 7), 3>>,
    <<"fan_speed", FromMainboard(VX_VARIABLE_FAN_SPEED, 1), 1>>,
    <<"default_fan_speed", FromMainboard(VX_VARIABLE_DEFAULT_FAN_SPEED, 1), 1>>,
    <<"service_period", FromMainboard(VX_VARIABLE_SERVICE_PERIOD, 4), 4>>,
    <<"service_counter", FromMainboard(VX_VARIABLE_SERVICE_COUNTER, 2), 2>>,
    <<"heating_target", FromMainboard(VX_VARIABLE_HEATING_TARGET, 160), 20>> }

\* loop() runs with exactly the frame of f = <<field, frame, decoded value>>
\* in the input buffer
DecodesOnly(f) ==
  /\ serial_open
  /\ rx = f[2]
  /\ DoLoop

C5_SnapshotOnce ==
  [][/\ InitCompletes =>
          (/\ Len(notified') >= Len(DataKeys)
           /\ SubSeq(notified', 1, Len(DataKeys)) = DataKeys
           /\ Occurrences(notified', "updated") = 1)
     /\ (~InitCompletes => Occurrences(notified', "updated") = 0)
     /\ ((full_init_done /\ ~NewConnection) => full_init_done')]_vars

\* C5 witness: the step that completed initialisation fired the snapshot
C5_Witness == full_init_done /\ decoded # <<>> /\ notified = DataKeys

\* the keys of the store in the order __init__ registers them
RegistrationOrder ==
  << "updated", "is_on", "is_rh_mode", "is_heating_mode", "is_filter",
     "is_heating", "is_fault", "is_service_needed", "is_summer_mode",
     "is_error_relay", "is_motor_in", "is_front_heating", "is_motor_out",
     "is_extra_func", "is_switch_active", "outside_temp", "inside_temp",
     "exhaust_temp", "incoming_temp", "rh1", "rh2", "co2_hi", "co2_lo", "co2",
     "fan_speed", "default_fan_speed", "service_period", "service_counter",
     "heating_target", "status", "variable08", "flags06" >>

\* the end-to-end scenario: status 0x01 was received and loop() decodes the
\* one frame that completes initialisation
EndToEnd ==
  /\ InitCompletes
  /\ Len(rx) = VX_MSG_LENGTH
  /\ data'["status"].value = 1
  /\ DoLoop

\* C6 (as claimed): the completing frame fires exactly 14 notifications.
C6_Original == [][EndToEnd => Len(notified') = 14]_vars

\* C6 (amended): the completing frame fires exactly 32 notifications, one for
\* each key of the store ('updated' and the 31 fields), in registration order.
C6_SnapshotIs32 ==
  [][EndToEnd => (Len(notified') = 32 /\ notified' = RegistrationOrder)]_vars

\* C6 witness: after the scenario is_on is true and 32 callbacks were made
C6_Witness ==
  /\ full_init_done
  /\ Len(decoded) = 1
  /\ data["status"].value = 1
  /\ data["is_on"].value = 1
  /\ Len(notified) = 32

\* ------------------------------------------------------------------------
\* SpecStatus: the status byte and the status-bitfield setters.  The bus
\* carries status frames; the caller connects, ticks and calls the six
\* setters; the clock moves past the retry interval; writes may fail.
\* ------------------------------------------------------------------------
StatusBytes == {0, 1, 6, 12, 240, 255}

\* <<status byte, the frame that carries it>>
StatusFrames ==
  {<<b, FromMainboard(VX_VARIABLE_STATUS, b)>> : b \in StatusBytes}

InitStatus == InitAt({StartClock})

DoReceiveStatus == \E f \in StatusFrames : Receive(f[2], MaxRxFrames)

StatusSetter(failAt) ==
  \/ SetOn(failAt)
  \/ SetOff(failAt)
  \/ SetRhModeOn(failAt)
  \/ SetRhModeOff(failAt)
  \/ SetHeatingModeOn(failAt)
  \/ SetHeatingModeOff(failAt)

DoStatusSetter == \E failAt \in FailPoints : StatusSetter(failAt)

NextStatus ==
  DoConnect \/ DoReceiveStatus \/ DoLoop \/ DoStatusSetter \/ DoAdvance

SpecStatus == InitStatus /\ [][NextStatus]_vars

\* status writes among the frames w: frames this panel sends that set the
\* status variable
StatusWrites(w) ==
  Cardinality({i \in 1..Len(w) : /\ w[i][2] = VX_MSG_THIS_PANEL
                                 /\ w[i][4] = VX_VARIABLE_STATUS})

\* C1, the guard alone: a status-bitfield setter called while the guard is
\* set issues no status write, and the guard stays set.
C1_GuardBlocks ==
  [][(DoStatusSetter /\ status_mutex)
       => (StatusWrites(written') = 0 /\ status_mutex')]_vars

\* C1 (as claimed): while the guard is set no status-bitfield setter issues
\* a status write, and set_on() on an open port with the guard clear (the
\* first of two consecutive calls, before or after a status frame) issues
\* exactly one status write and sets the guard.
C1_OneOutstandingWrite ==
  [][/\ (DoStatusSetter /\ status_mutex) => StatusWrites(written') = 0
     /\ (SetOn(0) /\ serial_open /\ ~status_mutex)
          => (StatusWrites(written') = 1 /\ status_mutex')]_vars

\* C7: after loop() decodes one status frame with byte b the shadow status
\* byte is b and each of the seven status flags is the corresponding bit of
\* b (power 0x01, RH 0x04, heating mode 0x08, filter 0x10, heating 0x20,
\* fault 0x40, service 0x80).
C7_StatusDecode ==
  [][\A f \in StatusFrames :
       (serial_open /\ rx = f[2] /\ DoLoop) =>
         (/\ data'["status"].value = f[1]
          /\ data'["is_on"].value = f[1] % 2
          /\ data'["is_rh_mode"].value = (f[1] \div 4) % 2
          /\ data'["is_heating_mode"].value = (f[1] \div 8) % 2
          /\ data'["is_filter"].value = (f[1] \div 16) % 2
          /\ data'["is_heating"].value = (f[1] \div 32) % 2
          /\ data'["is_fault"].value = (f[1] \div 64) % 2
          /\ data'["is_service_needed"].value = (f[1] \div 128) % 2)]_vars

\* C7 witness: the status frame 0x01 was decoded: is_on is true and the
\* other six status flags are false
C7_Witness ==
  /\ decoded = <<FromMainboard(VX_VARIABLE_STATUS, 1)>>
  /\ data["status"].value = 1
  /\ data["is_on"].value = 1
  /\ data["is_rh_mode"].value = 0
  /\ data["is_heating_mode"].value = 0
  /\ data["is_filter"].value = 0
  /\ data["is_heating"].value = 0
  /\ data["is_fault"].value = 0
  /\ data["is_service_needed"].value = 0

\* ------------------------------------------------------------------------
\* SpecCO2: the two CO2 halves and the clock.  The clock starts inside the
\* CO2 life time and moves in steps of 500 ms and 2500 ms.
\* ------------------------------------------------------------------------
Co2StartClock == 1500
Co2MaxElapsed == 3000

Co2Steps == {500, 2500}

\* <<field, other half, frame, byte>>
Co2Halves ==
  { <<"co2_hi", "co2_lo", FromMainboard(VX_VARIABLE_CO2_HI, 1), 1>>,
    <<"co2_hi", "co2_lo", FromMainboard(VX_VARIABLE_CO2_HI, 2), 2>>,
    <<"co2_lo", "co2_hi", FromMainboard(VX_VARIABLE_CO2_LO, 44), 44>>,
    <<"co2_lo", "co2_hi", FromMainboard(VX_VARIABLE_CO2_LO, 200), 200>> }

InitCO2 == InitAt({Co2StartClock})

DoReceiveCO2 == \E h \in Co2Halves : Receive(h[3], MaxRxFrames)

DoAdvanceCO2 ==
  \E d \in Co2Steps : Advance(d, Co2StartClock + Co2MaxElapsed)

NextCO2 == DoConnect \/ DoReceiveCO2 \/ DoLoop \/ DoAdvanceCO2

SpecCO2 == InitCO2 /\ [][NextCO2]_vars

\* C8: when loop() decodes one CO2 half the half is stored, and the
\* composite becomes lo + 256 * hi if the other half was received less than
\* 2000 ms earlier; otherwise the composite keeps its value (unset if it was
\* never built).
C8_Co2Window ==
  [][\A h \in Co2Halves :
       (serial_open /\ rx = h[3] /\ DoLoop) =>
         (/\ data'[h[1]].value = h[4]
          /\ data'["co2"].value =
               IF /\ data[h[2]].last_received # Never
                  /\ now - data[h[2]].last_received < 2000
               THEN IF h[1] = "co2_hi"
                    THEN data[h[2]].value + 256 * h[4]
                    ELSE h[4] + 256 * data[h[2]].value
               ELSE data["co2"].value)]_vars

\* C8 witness: hi byte 1, then lo byte 44 arrived 500 ms later: the
\* composite is 44 + (1 << 8)
C8_Witness ==
  /\ decoded = <<FromMainboard(VX_VARIABLE_CO2_LO, 44)>>
  /\ data["co2_hi"].value = 1
  /\ data["co2_lo"].last_received - data["co2_hi"].last_received = 500
  /\ data["co2"].value = 300

\* ------------------------------------------------------------------------
\* SpecWire: byte sequences on the wire.  The bus carries valid frames and
\* sequences that fail one of the four checks; the caller connects, ticks
\* and calls set_on().
\* ------------------------------------------------------------------------
WireSequences ==
  { FromMainboard(VX_VARIABLE_STATUS, 1),
    FromMainboard(VX_VARIABLE_FAN_SPEED, 7),
    Frame(VX_MSG_DOMAIN, VX_MSG_PANEL_1, VX_MSG_MAINBOARD_1,
          VX_VARIABLE_FAN_SPEED, 1),
    \* first byte is not the domain
    Frame(2, VX_MSG_MAINBOARD_1, VX_MSG_PANELS, VX_VARIABLE_STATUS, 12),
    \* sender 0x12
    Frame(VX_MSG_DOMAIN, 18, VX_MSG_PANELS, VX_VARIABLE_STATUS, 12),
    \* receiver 0x23
    Frame(VX_MSG_DOMAIN, VX_MSG_MAINBOARD_1, 35, VX_VARIABLE_STATUS, 12),
    \* checksum off by one
    [FromMainboard(VX_VARIABLE_STATUS, 12) EXCEPT ![6] = (@ + 1) % 256] }

InitWire == InitAt({StartClock})

DoReceiveWire == \E bytes \in WireSequences : Receive(bytes, MaxRxFrames + 1)

DoSetOn == \E failAt \in FailPoints : SetOn(failAt)

NextWire == DoConnect \/ DoReceiveWire \/ DoLoop \/ DoSetOn

SpecWire == InitWire /\ [][NextWire]_vars

\* the validity of a 6-byte sequence as the claim states it: first byte
\* 0x01, sender in {0x11, 0x22, 0x21}, receiver in {0x20, 0x22, 0x21, 0x11,
\* 0x10}, byte 5 the sum of bytes 0..4 mod 256
ValidAsClaimed(m) ==
  /\ Len(m) = 6
  /\ m[1] = 1
  /\ m[2] \in {17, 34, 33}
  /\ m[3] \in {32, 34, 33, 17, 16}
  /\ m[6] = (m[1] + m[2] + m[3] + m[4] + m[5]) % 256

\* no 6 consecutive bytes of the buffer are a valid frame
NoValidFrameIn(bytes) ==
  \A i \in 1..Len(bytes) :
    i + 5 <= Len(bytes) => ~ValidAsClaimed(SubSeq(bytes, i, i + 5))

\* C9: a loop() that finds no valid frame in the input buffer decodes
\* nothing: no value, arrival timestamp, 'updated' timestamp or completeness
\* flag changes, no callback is called and no error is raised, and the guard
\* changes only if the retry timer (5000 ms) fires.
C9_InvalidDropped ==
  [][(DoLoop /\ NoValidFrameIn(rx)) =>
       (/\ decoded' = <<>>
        /\ data' = data
        /\ settings' = settings
        /\ updated' = updated
        /\ full_init_done' = full_init_done
        /\ notified' = <<>>
        /\ err' = "none"
        /\ (status_mutex' # status_mutex => now - last_retry_loop > 5000))]_vars

\* C9 witness: loop() rejected a sequence for its sender or receiver (three
\* bytes of it are left) and the store is as it was built
C9_Witness ==
  /\ serial_open
  /\ Len(rx) = 3
  /\ decoded = <<>>
  /\ data = [n \in DataFields |-> ValueWithTimestamp]
  /\ ~full_init_done
  /\ err = "none"

\* ------------------------------------------------------------------------
\* SpecCodec: frames built by the encoder, and the same frames with one bit
\* flipped on the wire.  The caller connects and sets service periods and
\* fan speeds; the bus echoes a written frame with one bit of one of its
\* first five bytes flipped; loop() reads it.
\* ------------------------------------------------------------------------
\* byte with bit k flipped
FlipBitOfByte(byte, k) ==
  IF BitSet(byte, 2 ^ k) THEN byte - 2 ^ k ELSE byte + 2 ^ k

\* message with bit k of its i-th byte flipped
FlipBit(message, i, k) ==
  [message EXCEPT ![i] = FlipBitOfByte(@, k)]

\* the frames written by the last handler, each with one bit of one of the
\* bytes 0..4 flipped
OneBitFlips ==
  {FlipBit(written[j], i, k) : j \in 1..Len(written), i \in 1..5, k \in 0..7}

\* the bus delivers a corrupted echo of a frame just written
Echo(bytes) ==
  /\ serial_open
  /\ rx = <<>>
  /\ rx' = bytes
  /\ UNCHANGED <<serial_open, data, updated, settings, full_init_done,
                 last_requested, last_retry_loop, status_mutex, now,
                 notified, observed, written, decoded,
                 err, calls, measurepoints, poll_task>>

InitCodec == InitAt({StartClock})

DoSetServicePeriod == \E months \in {0, 4, 255} : SetServicePeriod(months, 0)

DoEcho == \E bytes \in OneBitFlips : Echo(bytes)

NextCodec ==
  DoConnect \/ DoSetServicePeriod \/ DoSetFanSpeed \/ DoEcho \/ DoLoop

SpecCodec == InitCodec /\ [][NextCodec]_vars

\* C10: every frame the encoder wrote carries the sum of its first five
\* bytes mod 256 and passes checksum validation, and every such frame with
\* one bit of one of the bytes 0..4 flipped fails checksum validation,
\* whether taken from the encoder or found in the input buffer.
C10_ChecksumRoundTrip ==
  /\ \A j \in 1..Len(written) :
       /\ written[j][6] = (written[j][1] + written[j][2] + written[j][3]
                           + written[j][4] + written[j][5]) % 256
       /\ _validate_checksum(written[j])
  /\ \A m \in OneBitFlips : ~_validate_checksum(m)
  /\ (rx \in OneBitFlips => ~_validate_checksum(rx))

\* C10 witness: a frame that sets the service period to 255 was written and
\* arrived with one bit flipped
C10_Witness ==
  /\ Len(written) = 2
  /\ written[1][5] = 255
  /\ rx \in OneBitFlips

\* ------------------------------------------------------------------------
\* SpecConv: the static conversion methods.  A caller applies a method to
\* an integer, and then a method to the result of the last call, up to
\* MaxCalls calls; calls records <<method, argument, result>> of each.
\* ------------------------------------------------------------------------
MaxCalls == 3
\* arguments of the first call: -ConvLow .. ConvHigh
ConvLow == 80
ConvHigh == 260

ConvInputs == (0 - ConvLow)..ConvHigh

\* the argument x is free for the first call and the last result afterwards
Chained(x) ==
  /\ Len(calls) < MaxCalls
  /\ calls # <<>> => x = calls[Len(calls)].result

Called(fn, x, y) ==
  /\ calls' = Append(calls, [fn |-> fn, arg |-> x, result |-> y])
  /\ UNCHANGED <<serial_open, rx, data, updated, settings, full_init_done,
                 last_requested, last_retry_loop, status_mutex, now,
                 notified, observed, written, decoded,
                 err, measurepoints, poll_task>>

FanSpeedToHex(x) ==
  Chained(x) /\ Called("_fan_speed_to_hex", x, _fan_speed_to_hex(x))

HexToFanSpeed(x) ==
  Chained(x) /\ Called("_hex_to_fan_speed", x, _hex_to_fan_speed(x))

NtcToCel(x) == Chained(x) /\ Called("_ntc_to_cel", x, _ntc_to_cel(x))

CelToNtc(x) == Chained(x) /\ Called("_cel_to_ntc", x, _cel_to_ntc(x))

HexToRh(x) == Chained(x) /\ Called("_hex_to_rh", x, _hex_to_rh(x))

NextConv ==
  \E x \in ConvInputs :
    \/ FanSpeedToHex(x)
    \/ HexToFanSpeed(x)
    \/ NtcToCel(x)
    \/ CelToNtc(x)
    \/ HexToRh(x)

SpecConv == Init /\ [][NextConv]_vars

\* C11: _hex_to_fan_speed applied to the result of _fan_speed_to_hex(speed)
\* gives speed back for every speed in 1..8, and _hex_to_fan_speed of a byte
\* 0..255 other than 0x01, 0x03, 0x07, 0x0F, 0x1F, 0x3F, 0x7F, 0xFF is -999.
C11_FanSpeedBijection ==
  \A k \in 1..Len(calls) :
    calls[k].fn = "_hex_to_fan_speed" =>
      /\ (/\ calls[k].arg \in 0..255
          /\ calls[k].arg \notin {1, 3, 7, 15, 31, 63, 127, 255})
           => calls[k].result = -999
      /\ (/\ k > 1
          /\ calls[k - 1].fn = "_fan_speed_to_hex"
          /\ calls[k - 1].arg \in 1..8)
           => calls[k].result = calls[k - 1].arg

\* C11 witness: speed 8 was encoded to 0xFF and decoded to 8 again
C11_Witness ==
  /\ Len(calls) = 2
  /\ calls[1] = [fn |-> "_fan_speed_to_hex", arg |-> 8, result |-> 255]
  /\ calls[2] = [fn |-> "_hex_to_fan_speed", arg |-> 255, result |-> 8]

\* Celsius values of the table
TableCelsius == {VX_TEMPS[i] : i \in 1..Len(VX_TEMPS)}

\* C12: for every table index i in 0..255, _cel_to_ntc applied to
\* _ntc_to_cel(i) is the lowest index that holds the Celsius value of index
\* i (so it is at most i and holds the same Celsius value); _cel_to_ntc of a
\* Celsius value the table does not hold is 0x83, and _ntc_to_cel(0x83) is
\* 10.
C12_NtcRoundTrip ==
  \A k \in 1..Len(calls) :
    /\ (/\ calls[k].fn = "_cel_to_ntc"
        /\ k > 1
        /\ calls[k - 1].fn = "_ntc_to_cel"
        /\ calls[k - 1].arg \in 0..255)
         => (/\ calls[k].result \in 0..calls[k - 1].arg
             /\ VX_TEMPS[calls[k].result + 1] = VX_TEMPS[calls[k - 1].arg + 1]
             /\ \A j \in 0..(calls[k].result - 1) :
                  VX_TEMPS[j + 1] # VX_TEMPS[calls[k - 1].arg + 1])
    /\ (calls[k].fn = "_cel_to_ntc" /\ calls[k].arg \notin TableCelsius)
         => calls[k].result = 131
    /\ (calls[k].fn = "_ntc_to_cel" /\ calls[k].arg = 131)
         => calls[k].result = 10

\* C12 witness: index 133 holds 10 degrees like 131 and 132; it was decoded
\* to 10, encoded to 131 and decoded to 10 again
C12_Witness ==
  /\ Len(calls) = 3
  /\ calls[1] = [fn |-> "_ntc_to_cel", arg |-> 133, result |-> 10]
  /\ calls[2] = [fn |-> "_cel_to_ntc", arg |-> 10, result |-> 131]
  /\ calls[3] = [fn |-> "_ntc_to_cel", arg |-> 131, result |-> 10]

\* ------------------------------------------------------------------------
\* SpecSetters: the value setters.  The caller connects, ticks and assigns
\* fan_speed, default_fan_speed, service_period, service_counter and
\* heating_target values inside and outside their ranges; calls holds the
\* assignment the last step made (empty after any other step).
\* ------------------------------------------------------------------------
FanInputs == {-1, 0, 8, 9}
MonthInputs == {-1, 0, 255, 256}
CelsiusInputs == {9, 10, 27, 28}

Assigned(name, v) == <<[fn |-> name, arg |-> v, result |-> None]>>

DoConnectSetters ==
  \E opened \in BOOLEAN, failAt \in FailPoints :
    CommitAs(connect(Engine(failAt), opened), <<>>)

DoLoopSetters == CommitAs(loop(Engine(0)), <<>>)

AssignFanSpeed ==
  \E speed \in FanInputs, failAt \in FailPoints :
    CommitAs(set_fan_speed(Engine(failAt), speed), Assigned("fan_speed", speed))

AssignDefaultFanSpeed ==
  \E speed \in FanInputs, failAt \in FailPoints :
    CommitAs(set_default_fan_speed(Engine(failAt), speed),
             Assigned("default_fan_speed", speed))

AssignServicePeriod ==
  \E months \in MonthInputs, failAt \in FailPoints :
    CommitAs(set_service_period(Engine(failAt), months),
             Assigned("service_period", months))

AssignServiceCounter ==
  \E months \in MonthInputs, failAt \in FailPoints :
    CommitAs(set_service_counter(Engine(failAt), months),
             Assigned("service_counter", months))

AssignHeatingTarget ==
  \E celsius \in CelsiusInputs, failAt \in FailPoints :
    CommitAs(set_heating_target(Engine(failAt), celsius),
             Assigned("heating_target", celsius))

NextSetters ==
  \/ DoConnectSetters
  \/ DoLoopSetters
  \/ AssignFanSpeed
  \/ AssignDefaultFanSpeed
  \/ AssignServicePeriod
  \/ AssignServiceCounter
  \/ AssignHeatingTarget

SpecSetters == Init /\ [][NextSetters]_vars

\* the step assigned a value outside the set range to one of the properties
AssignsOutside(names, range) ==
  /\ calls' # <<>>
  /\ calls'[1].fn \in names
  /\ calls'[1].arg \notin range

\* the step wrote no frame, changed no Observed Value, notified nothing and
\* raised nothing
SetterNoOp ==
  /\ written' = <<>>
  /\ data' = data
  /\ notified' = <<>>
  /\ err' = "none"

\* C13 (as claimed): assigning fan_speed or default_fan_speed a value
\* outside 1..8, 0 and negative values included, writes no frame, leaves the
\* stored value unchanged, notifies nothing and raises nothing.
C13_FanOutOfRangeNoOp ==
  [][AssignsOutside({"fan_speed", "default_fan_speed"}, 1..8)
       => SetterNoOp]_vars

\* what the fan speed setters do reject: values above 8
C13_FanAboveMaxNoOp ==
  [][AssignsOutside({"fan_speed", "default_fan_speed"},
                    {v \in FanInputs : v <= VX_MAX_FAN_SPEED})
       => SetterNoOp]_vars

\* the step assigned v to the property on an open port and the transport
\* did not fail: the value is stored, its frame is written to the
\* mainboards and to the panels, and the property is notified
Accepted(name, variable, v, byte) ==
  (/\ calls' = Assigned(name, v)
   /\ serial_open
   /\ err' = "none")
    => (/\ data'[name].value = v
        /\ written' = << Frame(VX_MSG_DOMAIN, VX_MSG_THIS_PANEL,
                               VX_MSG_MAINBOARDS, variable, byte),
                         Frame(VX_MSG_DOMAIN, VX_MSG_MAINBOARD_1,
                               VX_MSG_PANELS, variable, byte) >>
        /\ notified' = <<name>>)

\* C14: assigning heating_target a value outside 10..27, or service_period
\* or service_counter a value outside 0..255, writes no frame, leaves the
\* stored value unchanged, notifies nothing and raises nothing; the bounds
\* 10 and 27 (0 and 255) themselves are accepted.
C14_OutOfRangeNoOp ==
  [][/\ AssignsOutside({"heating_target"}, 10..27) => SetterNoOp
     /\ AssignsOutside({"service_period", "service_counter"}, 0..255)
          => SetterNoOp
     /\ Accepted("heating_target", VX_VARIABLE_HEATING_TARGET, 10, 131)
     /\ Accepted("heating_target", VX_VARIABLE_HEATING_TARGET, 27, 177)
     /\ \A v \in {0, 255} :
          /\ Accepted("service_period", VX_VARIABLE_SERVICE_PERIOD, v, v)
          /\ Accepted("service_counter", VX_VARIABLE_SERVICE_COUNTER, v, v)
    ]_vars

\* C14 witness: heating_target was 27 and 28 has just been assigned to it
C14_Witness ==
  /\ calls = Assigned("heating_target", 28)
  /\ data["heating_target"].value = 27
  /\ serial_open
  /\ written = <<>>
  /\ notified = <<>>

\* ------------------------------------------------------------------------
\* Guard contention (checked under SpecStatus)
\* ------------------------------------------------------------------------
\* C15 (as claimed): a status-bitfield setter (power, humidity mode, heating
\* mode; on or off) called while the guard is held writes no frame, changes
\* no Observed Value and fires no notification, whatever the shadow status
\* byte is.
C15_GuardContentionNoOp ==
  [][(status_mutex /\ DoStatusSetter)
       => (/\ written' = <<>>
           /\ data' = data
           /\ notified' = <<>>)]_vars

\* what does hold while the guard is held: no frame, no change of an
\* Observed Value, no exception, and no notification other than
\* is_heating_mode
C15_ContentionWritesNothing ==
  [][(status_mutex /\ DoStatusSetter)
       => (/\ written' = <<>>
           /\ data' = data
           /\ err' = "none"
           /\ notified' \in {<<>>, <<"is_heating_mode">>})]_vars

\* ------------------------------------------------------------------------
\* The retry path (checked under Spec)
\* ------------------------------------------------------------------------
\* the fields the retry path looks at, with the variable it requests for
\* each
RetryFields ==
  { <<"is_on", VX_VARIABLE_STATUS>>,
    <<"variable08", VX_VARIABLE_IO_08>>,
    <<"fan_speed", VX_VARIABLE_FAN_SPEED>>,
    <<"default_fan_speed", VX_VARIABLE_DEFAULT_FAN_SPEED>>,
    <<"service_period", VX_VARIABLE_SERVICE_PERIOD>>,
    <<"service_counter", VX_VARIABLE_SERVICE_COUNTER>>,
    <<"heating_target", VX_VARIABLE_HEATING_TARGET>> }

\* the positions in w of requests for the variable
RequestsFor(w, variable) ==
  {i \in 1..Len(w) :
     w[i] = Frame(VX_MSG_DOMAIN, VX_MSG_THIS_PANEL, VX_MSG_MAINBOARD_1,
                  VX_MSG_POLL_BYTE, variable)}

\* the retry timer fires in this tick (Spec never reaches the periodic
\* interval, so every frame the tick writes comes from the retry path)
RetryFires ==
  /\ serial_open
  /\ now - last_retry_loop > RETRY_INTERVAL * 1000
  /\ last_retry_loop' = now
  /\ DoLoop

\* C16: when the retry timer fires, a request is issued for each of status,
\* I/O 08, fan speed, default fan speed, service period, service counter
\* and heating target that has never been received (frames of this tick
\* included), none for one that has been received, and nothing else.
C16_RetryOnlyMissing ==
  [][RetryFires =>
       /\ \A f \in RetryFields :
            Cardinality(RequestsFor(written', f[2])) =
              IF data'[f[1]].last_received = Never THEN 1 ELSE 0
       /\ Len(written') =
            Cardinality({f \in RetryFields : data'[f[1]].last_received = Never})
    ]_vars

\* C16 witness: a retry has just asked for the six variables other than the
\* status, which had been received
C16_Witness ==
  /\ data["is_on"].last_received # Never
  /\ Len(written) = 6
  /\ \A f \in RetryFields \ {<<"is_on", VX_VARIABLE_STATUS>>} :
       RequestsFor(written, f[2]) # {}

\* ------------------------------------------------------------------------
\* SpecPoll: the polling task.  poll_device calls connect() once and then
\* loop() every 0.1 s until it is stopped; an exception that leaves loop()
\* leaves poll_device too and ends the task.  The bus carries status
\* frames, other tasks call the status-bitfield setters, the clock moves
\* past the retry interval and the transport may fail the open or a write.
\* ------------------------------------------------------------------------
PollStart ==
  \E opened \in BOOLEAN, failAt \in FailPoints :
    /\ poll_task = "created"
    /\ CommitEngine(connect(Engine(failAt), opened))
    /\ calls' = <<[fn |-> "connect", arg |-> None,
                   result |-> PyBool(connect_returns(Engine(failAt), opened))]>>
    /\ poll_task' = "running"

PollTick ==
  \E failAt \in FailPoints :
    /\ poll_task = "running"
    /\ CommitEngine(loop(Engine(failAt)))
    /\ calls' = calls
    /\ poll_task' = IF err' = "none" THEN "running" ELSE "failed"

\* state.stop is set
PollStop ==
  /\ poll_task = "running"
  /\ poll_task' = "stopped"
  /\ UNCHANGED <<serial_open, rx, data, updated, settings, full_init_done,
                 last_requested, last_retry_loop, status_mutex, now,
                 notified, observed, written, decoded,
                 err, calls, measurepoints>>

NextPoll ==
  \/ PollStart
  \/ PollTick
  \/ PollStop
  \/ DoReceiveStatus
  \/ DoStatusSetter
  \/ DoAdvance

SpecPoll == Init /\ [][NextPoll]_vars

\* a status frame is among the frames the step decoded
StatusDecoded ==
  \E i \in 1..Len(decoded') : \E f \in StatusFrames : decoded'[i] = f[2]

\* C17: while loop() keeps being called the guard does not stay set: a tick
\* that decodes a status frame clears it, and so does the first tick more
\* than 5 s after last_retry_loop, which is the time of the write that set
\* the guard (or earlier) and does not move while the guard is set; no
\* status frame is needed.
C17_GuardClearedByTick ==
  [][/\ (status_mutex /\ now - last_retry_loop > RETRY_INTERVAL * 1000
           /\ err' = "none" /\ PollTick) => ~status_mutex'
     /\ (status_mutex /\ StatusDecoded /\ PollTick) => ~status_mutex'
     /\ status_mutex' => last_retry_loop' <= now'
     /\ (status_mutex /\ status_mutex') => last_retry_loop' = last_retry_loop
    ]_vars

\* C17 witness: set_on() wrote bit 0 over the shadow status byte 0x00 and
\* set the guard, no status frame has been decoded since (is_on is still the
\* setter's value), and a tick after the retry interval has cleared the
\* guard
C17_Witness ==
  /\ poll_task = "running"
  /\ ~status_mutex
  /\ data["status"].value = 0
  /\ data["is_on"].value = 1
  /\ last_retry_loop = StartClock + TickStep

\* C20 (as claimed): a transport failure does not end the polling task:
\* when the open fails connect() returns False and the task goes on to call
\* loop(), and a tick in which a write fails leaves the task running.
C20_PollingSurvives ==
  [][/\ (poll_task = "created" /\ ~serial_open' /\ poll_task' = "running")
          => calls'[1].result = 0
     /\ poll_task = "running" => poll_task' \in {"running", "stopped"}
    ]_vars

\* the part about connect(): a failed open, or a failed write of
\* request_config, is caught in connect(), which returns False, and the
\* task starts polling
C20_ConnectFailureReported ==
  [][(poll_task = "created" /\ PollStart) =>
       /\ poll_task' = "running"
       /\ err' = "none"
       /\ ((~serial_open' \/ Len(written') < 10) <=> (calls'[1].result = 0))
    ]_vars

\* ------------------------------------------------------------------------
\* SpecSession: a long session.  The device answers the requests in the
\* order request_config sends them, one frame at a time; the caller
\* connects, disconnects, connects again and ticks; the clock moves by the
\* query interval and by single milliseconds around it.
\* ------------------------------------------------------------------------
\* single-millisecond clock steps next to a multiple of the query interval
MaxSmallSteps == 2

\* the answers to the requests status initialisation waits for, in the
\* order of the requests, with the field that records the arrival
Answers ==
  << <<"is_on", FromMainboard(VX_VARIABLE_STATUS, 1)>>,
     <<"variable08", FromMainboard(VX_VARIABLE_IO_08, 0)>>,
     <<"fan_speed", FromMainboard(VX_VARIABLE_FAN_SPEED, 7)>>,
     <<"default_fan_speed", FromMainboard(VX_VARIABLE_DEFAULT_FAN_SPEED, 1)>>,
     <<"service_period", FromMainboard(VX_VARIABLE_SERVICE_PERIOD, 4)>>,
     <<"service_counter", FromMainboard(VX_VARIABLE_SERVICE_COUNTER, 2)>>,
     <<"heating_target", FromMainboard(VX_VARIABLE_HEATING_TARGET, 160)>> >>

\* the device sends the first answer the engine has not received, or the
\* status again
DoReceiveAnswer ==
  \E i \in 1..Len(Answers) :
    /\ \/ i = 1
       \/ /\ data[Answers[i][1]].last_received = Never
          /\ \A j \in 1..(i - 1) : data[Answers[j][1]].last_received # Never
    /\ Receive(Answers[i][2], MaxRxFrames)

\* the clock moves one query interval, or a millisecond (at most
\* MaxSmallSteps of these next to each multiple of the interval)
DoAdvanceSession ==
  \E d \in {1, QUERY_INTERVAL * 1000} :
    /\ d = 1 => (now - StartClock) % (QUERY_INTERVAL * 1000) < MaxSmallSteps
    /\ Advance(d, StartClock + QUERY_INTERVAL * 1000 + MaxSmallSteps)

NextSession ==
  \/ DoConnect
  \/ Disconnect
  \/ DoReceiveAnswer
  \/ DoLoop
  \/ DoAdvanceSession

SpecSession == Init /\ [][NextSession]_vars

Request(variable) ==
  Frame(VX_MSG_DOMAIN, VX_MSG_THIS_PANEL, VX_MSG_MAINBOARD_1,
        VX_MSG_POLL_BYTE, variable)

\* every frame of w is the one request of the retry path for a field that
\* has no arrival time in d
OnlyRetryRequests(w, d) ==
  /\ \A f \in RetryFields :
       Cardinality(RequestsFor(w, f[2])) <=
         IF d[f[1]].last_received = Never THEN 1 ELSE 0
  /\ \A i \in 1..Len(w) : \E f \in RetryFields : w[i] = Request(f[2])

\* every field status initialisation waits for has an arrival time in d
StatusInitialized(d) ==
  \A f \in RetryFields : d[f[1]].last_received # Never

\* C18: on a tick on an open port with more than 300 s since
\* last_requested, the engine requests exactly the I/O 08 byte and the
\* service counter if status is initialised (the frames of the tick
\* counted), and issues no periodic request if it is not; in every other
\* tick, and always when status is not initialised, the only frames written
\* are retry requests for fields never received, so the periodic path never
\* sends the initial set and sends nothing before the interval has elapsed.
C18_PeriodicRequery ==
  [][(serial_open /\ DoLoop) =>
       IF now - last_requested > QUERY_INTERVAL * 1000
            /\ StatusInitialized(data')
       THEN written' = <<Request(VX_VARIABLE_IO_08),
                         Request(VX_VARIABLE_SERVICE_COUNTER)>>
       ELSE OnlyRetryRequests(written', data')
    ]_vars

\* C18 witness: status is initialised and a tick more than 300 s after the
\* last request has just asked for the I/O 08 byte and the service counter
C18_Witness ==
  /\ StatusInitialized(data)
  /\ serial_open
  /\ last_requested = now
  /\ written = <<Request(VX_VARIABLE_IO_08),
                 Request(VX_VARIABLE_SERVICE_COUNTER)>>

\* C19 (as claimed): a connect() that opens the port after disconnect() (or
\* for the first time) leaves every Observed Value unset with no arrival
\* time, the guard clear and status-initialised false, and writes the ten
\* requests of the full configuration set (unless a write fails).
C19_ReconnectFreshStore ==
  [][(~serial_open /\ serial_open') =>
       /\ data' = [n \in DataFields |-> ValueWithTimestamp]
       /\ ~status_mutex'
       /\ ~full_init_done'
       /\ (Len(written') = 10 \/ Len(written') < MaxFailAt)
    ]_vars

\* the part about the requests: a connect() that opens the port sets
\* full_init_done false and writes the ten requests of request_config
\* unless a write fails
C19_ReconnectRequestsConfig ==
  [][(~serial_open /\ serial_open') =>
       /\ ~full_init_done'
       /\ \/ written' = [i \in 1..10 |->
                 Request(<<VX_VARIABLE_STATUS, VX_VARIABLE_IO_08,
                           VX_VARIABLE_FAN_SPEED, VX_VARIABLE_DEFAULT_FAN_SPEED,
                           VX_VARIABLE_RH1, VX_VARIABLE_SERVICE_PERIOD,
                           VX_VARIABLE_SERVICE_COUNTER,
                           VX_VARIABLE_HEATING_TARGET, VX_VARIABLE_FLAGS_06,
                           VX_VARIABLE_PROGRAM>>[i])]
          \/ Len(written') < MaxFailAt
    ]_vars

\* ------------------------------------------------------------------------
\* SpecDecode: the decoder after initialisation.  The device answers the
\* requests of request_config in their order and, once every answer is in,
\* reports a changed status byte and variable 08, the four temperatures,
\* the second humidity sensor and its fault code; up to MaxRxFrames + 1
\* frames wait in the input buffer when loop() runs.
\* ------------------------------------------------------------------------
\* the temperatures are reported in turn, each once
TemperatureReports ==
  << <<"outside_temp", FromMainboard(VX_VARIABLE_T_OUTSIDE, 100)>>,
     <<"exhaust_temp", FromMainboard(VX_VARIABLE_T_EXHAUST, 150)>>,
     <<"inside_temp", FromMainboard(VX_VARIABLE_T_INSIDE, 160)>>,
     <<"incoming_temp", FromMainboard(VX_VARIABLE_T_INCOMING, 140)>> >>

Reports ==
  { FromMainboard(VX_VARIABLE_STATUS, 12),
    FromMainboard(VX_VARIABLE_IO_08, 10),
    FromMainboard(VX_VARIABLE_RH2, 100),
    FromMainboard(VX_VARIABLE_FAULT_CODE, 0) }
    \cup {TemperatureReports[i][2] : i \in
            {i \in 1..Len(TemperatureReports) :
               /\ data[TemperatureReports[i][1]].value = None
               /\ \A j \in 1..(i - 1) :
                    data[TemperatureReports[j][1]].value # None}}

NextAnswers ==
  {Answers[i][2] : i \in
     {i \in 1..Len(Answers) :
        \/ i \in {1, 2}
        \/ /\ data[Answers[i][1]].last_received = Never
           /\ \A j \in 1..(i - 1) : data[Answers[j][1]].last_received # Never}}

\* the answer to the flags 06 request, which may come at any time until it
\* has been decoded
Flags06Answer ==
  IF data["is_switch_active"].last_received = Never
  THEN {FromMainboard(VX_VARIABLE_FLAGS_06, VX_06_FIREPLACE_FLAG_IS_ACTIVE)}
  ELSE {}

DoReceiveDecode ==
  \E f \in NextAnswers \cup Reports \cup Flags06Answer :
    /\ f \in Reports =>
         \A i \in 1..Len(Answers) : data[Answers[i][1]].last_received # Never
    /\ Receive(f, MaxRxFrames + 1)

NextDecode == DoConnect \/ DoReceiveDecode \/ DoLoop

SpecDecode == Init /\ [][NextDecode]_vars

\* C21 (as claimed): whatever valid frames wait in the input buffer, loop()
\* decodes them without raising.
C21_NoFrameIsFatal == [][DoLoop => err' = "none"]_vars

\* what holds: a tick raises only if it decoded an RH2 frame last
C21_OnlyRh2Raises ==
  [][(DoLoop /\ err' # "none")
       => (/\ decoded' # <<>>
           /\ decoded'[Len(decoded')] = FromMainboard(VX_VARIABLE_RH2, 100)
           /\ err' = "TypeError")]_vars

\* the flags carried by a status or variable-08 frame, as <<name, mask>>
FlagsOf(message) ==
  IF message[4] = VX_VARIABLE_STATUS THEN StatusFlags
  ELSE IF message[4] = VX_VARIABLE_IO_08 THEN Variable08Flags
  ELSE <<>>

\* C22 (as claimed): in a tick that decodes one status or variable-08 frame,
\* every invocation of the change callback sees each flag of that byte at
\* the value the new byte gives it.
C22_AtomicFanOut ==
  [][(/\ rx # <<>>
      /\ DoLoop
      /\ Len(decoded') = 1)
       => \A i \in 1..Len(observed') :
            \A k \in 1..Len(FlagsOf(decoded'[1])) :
              observed'[i][FlagsOf(decoded'[1])[k][1]]
                = PyBool(BitAnd(decoded'[1][5], FlagsOf(decoded'[1])[k][2]) # 0)]_vars

\* the boolean fields fanned out from the status byte, variable 08 and
\* flags 06
StatusClassFields ==
  {StatusFlags[i][1] : i \in 1..Len(StatusFlags)}
    \cup {Variable08Flags[i][1] : i \in 1..Len(Variable08Flags)}
    \cup {"is_switch_active"}

ConfigurationFields ==
  {"fan_speed", "default_fan_speed", "service_period", "service_counter",
   "heating_target"}

\* init_ok
init_ok == full_init_done

\* C23 (as claimed): init_ok is true only if every status-class field and
\* every configuration field has been received at least once.
C23_InitOkRequiresAll ==
  init_ok => \A n \in StatusClassFields \cup ConfigurationFields :
               data[n].last_received # Never

\* what holds: init_ok is true only if the fields tested by
\* _is_status_init_done have been received, and it becomes true in the tick
\* that decodes the frame completing them
C23_InitOkRequiresTested ==
  init_ok => \A n \in (StatusClassFields \ {"is_switch_active"})
                        \cup ConfigurationFields :
               data[n].last_received # Never

TemperatureFields == {"outside_temp", "inside_temp", "exhaust_temp", "incoming_temp"}

\* C24 (as claimed): once a frame of each of the four temperatures has been
\* decoded (each field holds a reading), temperature-initialized is true.
C24_TemperatureInitialized ==
  (\A n \in TemperatureFields : data[n].value # None)
    => _is_temperature_init_done([data |-> data])

\* the typed getters, reading the store
TemperatureGetter(n) == IF data[n].value # None THEN data[n].value ELSE 0

SensorGetter(n) ==
  IF data[n].last_received = Never THEN NOT_SET
  ELSE IF data[n].value # None THEN data[n].value ELSE NOT_SET

ConfigGetter(n) == IF data[n].value # None THEN data[n].value ELSE NOT_SET

Getter(n) ==
  IF n \in TemperatureFields THEN TemperatureGetter(n)
  ELSE IF n \in {"rh1", "rh2", "co2"} THEN SensorGetter(n)
  ELSE ConfigGetter(n)

\* C25 (as claimed): the getter of a field that holds no reading (it has
\* never been received) returns the unset sentinel -999.
C25_UnsetGetterReturnsSentinel ==
  \A n \in TemperatureFields \cup {"rh1", "rh2", "co2"} \cup ConfigurationFields :
    data[n].value = None => Getter(n) = NOT_SET

\* what holds: the getters other than the temperature getters return the
\* sentinel for a field that holds no reading
C25_NonTemperatureSentinel ==
  \A n \in {"rh1", "rh2", "co2"} \cup ConfigurationFields :
    data[n].value = None => Getter(n) = NOT_SET

\* C26: in a tick that finds two frames in the input buffer, the first is
\* decoded before the second is read: the frames decoded, the store and the
\* notifications are those of decoding the first frame and then, on the
\* store it left, the second; if decoding the first frame raised, the
\* second is still in the input buffer.
C26_ArrivalOrder ==
  [][(/\ Len(rx) = 2 * VX_MSG_LENGTH
      /\ DoLoop)
       => (/\ \/ /\ decoded' = << SubSeq(rx, 1, VX_MSG_LENGTH),
                                   SubSeq(rx, VX_MSG_LENGTH + 1, 2 * VX_MSG_LENGTH) >>
                 /\ rx' = <<>>
              \/ /\ err' # "none"
                 /\ decoded' = << SubSeq(rx, 1, VX_MSG_LENGTH) >>
                 /\ rx' = SubSeq(rx, VX_MSG_LENGTH + 1, 2 * VX_MSG_LENGTH)
           /\ data' = _decode_message(
                        _decode_message(Engine(0), SubSeq(rx, 1, VX_MSG_LENGTH)),
                        SubSeq(rx, VX_MSG_LENGTH + 1, 2 * VX_MSG_LENGTH)).data
           /\ notified' = _decode_message(
                        _decode_message(Engine(0), SubSeq(rx, 1, VX_MSG_LENGTH)),
                        SubSeq(rx, VX_MSG_LENGTH + 1, 2 * VX_MSG_LENGTH)).notified)]_vars

\* a tick has decoded two different frames, each with its notifications
C26_Witness ==
  /\ Len(decoded) = 2
  /\ decoded[1][4] = VX_VARIABLE_IO_08
  /\ decoded[2][4] = VX_VARIABLE_STATUS
  /\ notified = <<"is_summer_mode", "is_motor_in",
                  "is_on", "is_rh_mode", "is_heating_mode">>
  /\ err = "none"

\* the variable each configuration setter writes
SetterVariable ==
  [fan_speed |-> VX_VARIABLE_FAN_SPEED,
   default_fan_speed |-> VX_VARIABLE_DEFAULT_FAN_SPEED,
   service_period |-> VX_VARIABLE_SERVICE_PERIOD,
   service_counter |-> VX_VARIABLE_SERVICE_COUNTER,
   heating_target |-> VX_VARIABLE_HEATING_TARGET]

\* C27: an assignment that writes and does not raise writes exactly two
\* frames: [0x01, this panel, mainboards, variable, value, checksum] and then
\* [0x01, mainboard 1, panels, variable, value, checksum], with the same
\* variable and value and each checksum the sum of the frame's first five
\* bytes mod 256.
C27_SetCommandTwoFrames ==
  [][(/\ calls' # <<>>
      /\ written' # <<>>
      /\ err' = "none")
       => (/\ Len(written') = 2
           /\ Len(written'[1]) = VX_MSG_LENGTH
           /\ Len(written'[2]) = VX_MSG_LENGTH
           /\ SubSeq(written'[1], 1, 4)
                = <<1, 34, VX_MSG_MAINBOARDS, SetterVariable[calls'[1].fn]>>
           /\ SubSeq(written'[2], 1, 4)
                = <<1, 17, 32, SetterVariable[calls'[1].fn]>>
           /\ written'[2][5] = written'[1][5]
           /\ \A i \in 1..2 :
                written'[i][6] = (written'[i][1] + written'[i][2] + written'[i][3]
                                    + written'[i][4] + written'[i][5]) % 256)]_vars

\* heating_target = 27 has written its two frames
C27_Witness ==
  /\ calls = Assigned("heating_target", 27)
  /\ written = << <<1, 34, 16, 164, 177, 136>>, <<1, 17, 32, 164, 177, 135>> >>
  /\ err = "none"

\* ------------------------------------------------------------------------
\* SpecOuman: the Ouman device.  The caller formats requests, reads single
\* measure points and runs read_all cycles; the controller answers each
\* request with a well-formed response, a response cut short by the read
\* timeout, a response with one byte changed, the answer to another command
\* or a payload too short for the echo or the value.  calls holds the last
\* call, written the requests it wrote, err the exception that left it.
\* ------------------------------------------------------------------------
OumanCommands == {-32769, -32768, -1, 0, 13, 18, 125, 255, 256, 32767, 32768}

\* the response the controller sends to cmd with the given value bytes
GoodResponse(cmd, payload) ==
  <<STX, ACK, 2 + Len(payload)>> \o pack_h(cmd) \o payload
    \o __calc_crc(<<ACK, 2 + Len(payload)>> \o pack_h(cmd) \o payload)

\* value bytes per point: the usual reading and a payload one byte short of
\* the slice
UsualPayload == << <<7, 208>>, <<0, 1>>, <<50>>, <<0, 0, 0, 100>> >>

\* negative readings of the temperature and the valve position
ChangedPayload == << <<255, 156>>, <<0, 1>>, <<200>>, <<0, 0, 0, 100>> >>

ShortPayload == << <<7>>, <<0>>, <<>>, <<0, 0, 1>> >>

\* per point: the usual answer, an answer too short for the slice and no
\* answer
CycleResponses(i) ==
  { GoodResponse(OumanPoints[i].idx, UsualPayload[i]),
    GoodResponse(OumanPoints[i].idx, ShortPayload[i]),
    <<>> }

\* per point: these, the changed reading, the usual answer with a byte
\* more, cut short after k bytes or with byte k changed, the answer to the
\* next command, and answers whose payload is shorter than the echoed
\* command
Responses(i) ==
  CycleResponses(i)
    \cup {GoodResponse(OumanPoints[i].idx, ChangedPayload[i])}
    \cup {GoodResponse(OumanPoints[i].idx, UsualPayload[i] \o <<9>>)}
    \cup {GoodResponse(OumanPoints[i].idx + 1, UsualPayload[i])}
    \cup {Take(GoodResponse(OumanPoints[i].idx, UsualPayload[i]), k) :
            k \in 1..(5 + Len(UsualPayload[i]))}
    \cup {[GoodResponse(OumanPoints[i].idx, UsualPayload[i])
             EXCEPT ![k] = (@ + 1) % 256] :
            k \in 1..(6 + Len(UsualPayload[i]))}
    \cup {<<STX, ACK, 0, 6>>, <<STX, ACK, 1, 0, 7>>}

OumanDevice ==
  [measurepoints |-> measurepoints, notified |-> <<>>, written |-> <<>>,
   err |-> "none"]

OumanStep(o, c) ==
  /\ measurepoints' = o.measurepoints
  /\ notified' = o.notified
  /\ written' = o.written
  /\ err' = o.err
  /\ calls' = c
  /\ UNCHANGED <<serial_open, rx, data, updated, settings, full_init_done,
                 last_requested, last_retry_loop, status_mutex, now,
                 observed, decoded, poll_task>>

FmtCmd ==
  \E cmd \in OumanCommands :
    OumanStep([OumanDevice EXCEPT !.err = __fmt_cmd(cmd).err],
              <<[fn |-> "__fmt_cmd", arg |-> cmd, result |-> __fmt_cmd(cmd)]>>)

ReadPoint ==
  \E i \in 1..Len(OumanPoints) :
    \E resp \in Responses(i) :
      OumanStep(MeasurePoint_read(OumanDevice, i, resp),
                <<[fn |-> "read", arg |-> <<i, resp>>,
                   result |-> __read(OumanPoints[i].idx, OumanPoints[i].datastart,
                                     OumanPoints[i].dataend, resp)]>>)

ReadAll ==
  \E r1 \in CycleResponses(1), r2 \in CycleResponses(2),
     r3 \in CycleResponses(3), r4 \in CycleResponses(4) :
    OumanStep(read_all(OumanDevice, <<r1, r2, r3, r4>>),
              <<[fn |-> "read_all", arg |-> <<r1, r2, r3, r4>>,
                 result |-> PyNone]>>)

NextOuman == FmtCmd \/ ReadPoint \/ ReadAll

SpecOuman == Init /\ [][NextOuman]_vars

\* the last call was __fmt_cmd of a command that fits 16 bits
Formatted ==
  /\ calls # <<>>
  /\ calls[1].fn = "__fmt_cmd"
  /\ calls[1].arg \in -32768..32767

\* the request is STX, the header 0x81 and length 2, and the command as two
\* big-endian bytes, followed by one more byte
RequestLayout(out, cmd) ==
  /\ Len(out) = 6
  /\ out[1] = 2
  /\ out[2] = 129
  /\ out[3] = 2
  /\ out[4] \in 0..255
  /\ out[5] \in 0..255
  /\ out[4] * 256 + out[5] = (IF cmd < 0 THEN cmd + 65536 ELSE cmd)

\* C28 (as claimed): the request is STX, header, command and a checksum that
\* is the sum mod 256 of all the bytes before it, STX included.
C28_ChecksumOfAllPreceding ==
  Formatted =>
    /\ calls[1].result.err = "none"
    /\ RequestLayout(calls[1].result.out, calls[1].arg)
    /\ calls[1].result.out[6]
         = (calls[1].result.out[1] + calls[1].result.out[2] + calls[1].result.out[3]
              + calls[1].result.out[4] + calls[1].result.out[5]) % 256

\* C28 (amended): the request is STX, header, command and a checksum that is
\* the sum mod 256 of the header and command bytes; STX is not summed.
C28_ChecksumAfterStx ==
  Formatted =>
    /\ calls[1].result.err = "none"
    /\ RequestLayout(calls[1].result.out, calls[1].arg)
    /\ calls[1].result.out[6]
         = (calls[1].result.out[2] + calls[1].result.out[3]
              + calls[1].result.out[4] + calls[1].result.out[5]) % 256

\* command 255 was formatted: 02 81 02 00 FF 82, the sum 0x182 cut to 8 bits
C28_Witness ==
  calls = <<[fn |-> "__fmt_cmd", arg |-> 255,
             result |-> [out |-> <<2, 129, 2, 0, 255, 130>>, err |-> "none"]]>>

\* resp begins with STX and ACK, carries a length byte n, n payload bytes
\* and a checksum byte that is the sum mod 256 of ACK, n and the payload
Checksummed(resp) ==
  /\ Len(resp) >= 3
  /\ resp[1] = 2
  /\ resp[2] = 6
  /\ Len(resp) >= 4 + resp[3]
  /\ resp[4 + resp[3]] = SumSeq(SubSeq(resp, 2, 3 + resp[3])) % 256

\* and its first two payload bytes are the command id
ValidResponse(resp, cmd) ==
  /\ Checksummed(resp)
  /\ resp[3] >= 2
  /\ resp[4] * 256 + resp[5] = cmd

\* C29 (as claimed): a read returns a value only if the response is valid,
\* and for every other response it returns None and raises nothing.
C29_InvalidResponseNoValue ==
  (calls # <<>> /\ calls[1].fn = "read") =>
    /\ calls[1].result.val.some
         => ValidResponse(calls[1].arg[2], OumanPoints[calls[1].arg[1]].idx)
    /\ ~ValidResponse(calls[1].arg[2], OumanPoints[calls[1].arg[1]].idx)
         => (~calls[1].result.val.some /\ calls[1].result.err = "none")

\* what holds: a value is returned only for a valid response, and a read of
\* a response that is not valid raises only when the checksum is right and
\* the payload is shorter than the two bytes of the command id
C29_ValueOnlyIfValid ==
  (calls # <<>> /\ calls[1].fn = "read") =>
    /\ calls[1].result.val.some
         => ValidResponse(calls[1].arg[2], OumanPoints[calls[1].arg[1]].idx)
    /\ (/\ ~ValidResponse(calls[1].arg[2], OumanPoints[calls[1].arg[1]].idx)
        /\ calls[1].result.err # "none")
         => (/\ Checksummed(calls[1].arg[2])
             /\ calls[1].arg[2][3] < 2
             /\ calls[1].result.err = "struct.error")

\* C30 (as claimed): in a read_all cycle no error propagates, whatever the
\* responses, and every measure point is read (its request is written).
C30_UnreadableValueSkipsOneRead ==
  (calls # <<>> /\ calls[1].fn = "read_all") =>
    /\ err = "none"
    /\ Len(written) = Len(OumanPoints)
    /\ \A i \in 1..Len(OumanPoints) : written[i] = __fmt_cmd(OumanPoints[i].idx).out

\* what holds: a cycle reads every point unless a read raised, and then it
\* has read the points up to the one that raised and no other
C30_CycleEndsAtRaise ==
  (calls # <<>> /\ calls[1].fn = "read_all") =>
    /\ err = "none" => Len(written) = Len(OumanPoints)
    /\ err # "none" =>
         /\ Len(written) \in 1..Len(OumanPoints)
         /\ __read(OumanPoints[Len(written)].idx,
                   OumanPoints[Len(written)].datastart,
                   OumanPoints[Len(written)].dataend,
                   calls[1].arg[Len(written)]).err = err
    /\ \A i \in 1..Len(written) : written[i] = __fmt_cmd(OumanPoints[i].idx).out

\* C31 (as claimed): once the polling task has stopped, the transport is
\* closed.
C31_StoppedTaskClosedTransport == poll_task = "stopped" => ~serial_open

\* what holds: a stopped task stays stopped, so it calls loop() no more
C31_StoppedTaskStaysStopped ==
  [][poll_task = "stopped" => poll_task' = "stopped"]_vars

\* C32: the drain loop of a tick makes at most Len(rx) / 6 + 1 calls of
\* _read_message; a call returns a frame only when six bytes are waiting
\* and then consumes exactly six, a call with fewer than six bytes waiting
\* consumes nothing, and the first call that returns no frame is the last.
C32_DrainBounded ==
  [][DoLoop =>
       LET r == ReadAndDecodeAll(Engine(0)).reads
       IN /\ Len(r) \in 1..(Len(rx) \div 6 + 1)
          /\ r[1].before = Len(rx)
          /\ r[Len(r)].after = Len(rx')
          /\ \A k \in 1..Len(r) :
               /\ r[k].message # <<>> =>
                    (r[k].before >= 6 /\ r[k].before - r[k].after = 6)
               /\ r[k].before < 6 =>
                    (r[k].message = <<>> /\ r[k].after = r[k].before)
               /\ r[k].message = <<>> => k = Len(r)
               /\ k > 1 => r[k].before = r[k - 1].after]_vars

\* a tick read one frame and then rejected the first byte of the next
\* sequence, of which five bytes are left
C32_Witness ==
  /\ serial_open
  /\ decoded = <<FromMainboard(VX_VARIABLE_FAN_SPEED, 7)>>
  /\ rx = <<VX_MSG_MAINBOARD_1, VX_MSG_PANELS, VX_VARIABLE_STATUS, 12, 226>>

\* C33 (as claimed): while is_on holds True (set by a status frame or by
\* set_on()), the status byte written by a setter of another status bit has
\* the power bit set.
C33_WriteKeepsPowerBit ==
  [][(/\ data["is_on"].value = 1
      /\ data["status"].value # None
      /\ \E failAt \in FailPoints :
           \/ SetRhModeOn(failAt)
           \/ SetRhModeOff(failAt)
           \/ SetHeatingModeOn(failAt)
           \/ SetHeatingModeOff(failAt)
      /\ written' # <<>>)
       => BitSet(written'[1][5], VX_STATUS_FLAG_POWER)]_vars

\* C34 (as claimed): a status setter called while no status frame has been
\* decoded (the shadow status byte is None) completes without an error, and
\* every frame it writes carries a byte as its value.
C34_EarlySetterCompletes ==
  [][(data["status"].value = None /\ DoStatusSetter)
       => /\ err' = "none"
          /\ \A i \in 1..Len(written') : written'[i][5] \in 0..255]_vars

\* C35 (as claimed): a value setter called while the port is not open
\* leaves the stored values and the status guard as they were and notifies
\* nobody.
C35_ClosedPortSetterChangesNothing ==
  [][(/\ ~serial_open
      /\ \/ AssignFanSpeed
         \/ AssignDefaultFanSpeed
         \/ AssignServicePeriod
         \/ AssignServiceCounter
         \/ AssignHeatingTarget)
       => /\ data' = data
          /\ status_mutex' = status_mutex
          /\ notified' = <<>>]_vars

\* C36 (as claimed): a tick at most 5 s after connect() issued the initial
\* requests writes no request (in Spec the periodic interval is never
\* reached, so a tick writes retry requests only).
C36_NoRetryWithinInterval ==
  [][(/\ serial_open
      /\ last_requested # Never
      /\ now - last_requested <= RETRY_INTERVAL * 1000
      /\ DoLoop)
       => written' = <<>>]_vars

\* C37 (as claimed): when loop() decodes one CO2 half while the other half
\* has never been received, no error is raised and the composite keeps its
\* value, whatever the clock reads.
C37_Co2NeedsBothHalves ==
  [][\A h \in Co2Halves :
       (/\ serial_open
        /\ rx = h[3]
        /\ data[h[2]].last_received = Never
        /\ DoLoop)
         => /\ err' = "none"
            /\ data'["co2"] = data["co2"]]_vars

\* ------------------------------------------------------------------------
\* SpecResync: rejected bytes in front of valid frames.  The bus carries
\* single stray bytes, a frame of an unknown sender and valid frames; the
\* caller connects and ticks.
\* ------------------------------------------------------------------------
ResyncFrames ==
  { FromMainboard(VX_VARIABLE_FAN_SPEED, 7),
    FromMainboard(VX_VARIABLE_STATUS, 1) }

ResyncSequences ==
  ResyncFrames \cup
  { \* stray bytes: the domain byte and another one
    <<VX_MSG_DOMAIN>>,
    <<0>>,
    \* sender 0x12, value 0x01
    Frame(VX_MSG_DOMAIN, 18, VX_MSG_PANELS, VX_VARIABLE_STATUS, 1) }

DoReceiveResync ==
  \E bytes \in ResyncSequences : Receive(bytes, MaxRxFrames + 1)

NextResync == DoConnect \/ DoReceiveResync \/ DoLoop

SpecResync == Init /\ [][NextResync]_vars

\* the last six bytes waiting
LastFrame(bytes) == SubSeq(bytes, Len(bytes) - 5, Len(bytes))

\* C38 (as claimed): when a tick starts with a valid frame at the end of
\* the input buffer, whatever was rejected in front of it, the tick decodes
\* the frame or leaves it whole at the end of the buffer for a later tick.
C38_ValidFrameSurvives ==
  [][\A f \in ResyncFrames :
       (/\ serial_open
        /\ Len(rx) >= 6
        /\ LastFrame(rx) = f
        /\ DoLoop)
         => \/ \E i \in 1..Len(decoded') : decoded'[i] = f
            \/ Len(rx') >= 6 /\ LastFrame(rx') = f]_vars

\* ------------------------------------------------------------------------
\* SpecSensors: SpecCO2 with an RH1 report (byte 100, 24 %) on the bus.
\* ------------------------------------------------------------------------
Rh1Report == FromMainboard(VX_VARIABLE_RH1, 100)

DoReceiveRh1 == Receive(Rh1Report, MaxRxFrames)

NextSensors ==
  DoConnect \/ DoReceiveCO2 \/ DoReceiveRh1 \/ DoLoop \/ DoAdvanceCO2

SpecSensors == InitCO2 /\ [][NextSensors]_vars

\* C39 (as claimed): once the store holds an RH1 percentage or a CO2
\* composite, the getter of the field returns it.
C39_GetterExposesDecoded ==
  \A n \in {"rh1", "co2"} :
    data[n].value # None => SensorGetter(n) = data[n].value

\* C40 (as claimed): when the read of a measure point returns no value
\* (the response failed a check; nothing was raised), the point keeps the
\* value it held and no property change is notified.
C40_FailedReadKeepsValue ==
  [][(/\ calls' # <<>>
      /\ calls'[1].fn = "read"
      /\ calls'[1].result.err = "none"
      /\ ~calls'[1].result.val.some
      /\ ReadPoint)
       => /\ measurepoints'[calls'[1].arg[1]]._value =
               measurepoints[calls'[1].arg[1]]._value
          /\ notified' = <<>>]_vars

====
